---- MODULE Spec2Model ----
(***************************************************************************)
(* A model of mtpy/core/edi_object_new.py: the Edi document, its four      *)
(* section objects (Header, Information, DefineMeasurement, DataSection),  *)
(* the transfer-function decoder (_read_mt) and encoder                    *)
(* (_write_data_block), over a small file system.                          *)
(*                                                                         *)
(* A file is the sequence of its lines.  A line is a record whose fields   *)
(* carry exactly what the code tests on it: whether it starts with '>' or  *)
(* '>=', the marker word, whether it holds a '!', its '='-separated        *)
(* parts, its whitespace-separated tokens.                                 *)
(***************************************************************************)
EXTENDS Integers, Sequences, FiniteSets, TLC

\* ------------------------------------------------------------------------
\* Python values.  Each type has its own record shape.
\* ------------------------------------------------------------------------
None == [none |-> TRUE]
PInt(n) == [pint |-> n]
PBool(b) == [pbool |-> b]
\* a float of a data block: m * 10^(e-7), m of 8 decimal digits, or m = 0
Flt(m, e) == [m |-> m, e |-> e]
\* a float holding a position in degrees, counted in 1/100 arc second
PDeg(n) == [casec |-> n]
\* a float holding a length in metres, counted in millimetres
PLen(n) == [mm |-> n]

IsNone(v) == "none" \in DOMAIN v
IsFlt(v) == "m" \in DOMAIN v

\* ------------------------------------------------------------------------
\* Texts (Python str): the pieces of a line.
\* ------------------------------------------------------------------------
\* characters that are no number and no position: "par28ew", "None", ""
W(s) == [w |-> s]
\* a number in scientific notation with d significant digits:
\* m * 10^(e-(d-1)), e.g. "1.0e32" is Numeral(10, 2, 32)
Numeral(m, d, e) == [nm |-> m, nd |-> d, ne |-> e]
\* an integer literal, "14"
IntLit(n) == [il |-> n]
\* a fixed-point literal with k > 0 decimals, "120.000" is Dec(120000, 3)
Dec(n, k) == [dn |-> n, dk |-> k]
\* a sexagesimal position DD:MM:SS.ss, sign on the degree field
Dms(sg, d, mi, cs) == [sg |-> sg, dd |-> d, mi |-> mi, cs |-> cs]
\* a colon-delimited position string that is malformed, "12:AB:10"
BadDms(s) == [baddms |-> s]

IsW(t) == "w" \in DOMAIN t
IsNumeral(t) == "nm" \in DOMAIN t
IsIntLit(t) == "il" \in DOMAIN t
IsDec(t) == "dn" \in DOMAIN t
IsDms(t) == "dd" \in DOMAIN t
IsBadDms(t) == "baddms" \in DOMAIN t
IsText(v) == IsW(v) \/ IsNumeral(v) \/ IsIntLit(v) \/ IsDec(v) \/ IsDms(v) \/ IsBadDms(v)

Pow10(k) == CASE k = 0 -> 1 [] k = 1 -> 10 [] k = 2 -> 100 [] k = 3 -> 1000
              [] k = 4 -> 10000 [] k = 5 -> 100000 [] k = 6 -> 1000000
              [] k = 7 -> 10000000 [] OTHER -> 100000000

Abs(n) == IF n < 0 THEN -n ELSE n

\* results of an operation that may raise
Ok(v) == [ok |-> TRUE, v |-> v]
Raise(e) == [ok |-> FALSE, exc |-> e]
\* the statements after one that may raise: K on its value, or its exception
Bind(r, K(_)) == IF r.ok THEN K(r.v) ELSE r
\* a local name for x in K
With(x, K(_)) == K(x)

\* ------------------------------------------------------------------------
\* float(token) and '{0: 15.6e}'.format(x) on the floats of the data blocks
\* ------------------------------------------------------------------------
\* float(dd) of line 231: a numeral of at most 8 digits is read exactly, any
\* other token raises ValueError
PyFloat(t) ==
    IF IsNumeral(t) THEN Ok(Flt(t.nm * Pow10(8 - t.nd), IF t.nm = 0 THEN 0 ELSE t.ne))
    ELSE Raise("ValueError")

\* the constant 1.0e32 of line 232
Sentinel1e32 == Flt(10000000, 32)
Zero == Flt(0, 0)

\* ' 15.6e': seven significant digits, the eighth rounded away (inputs hold no
\* tie), a carry moving the exponent
FormatE(x) ==
    LET a == Abs(x.m)
        r == (a + 5) \div 10
        sgn == IF x.m < 0 THEN -1 ELSE 1
    IN IF r = 10000000 THEN Numeral(sgn * 1000000, 7, x.e + 1)
       ELSE Numeral(sgn * r, 7, x.e)

\* '{0}'.format(x) of a float (str(x)): the shortest numeral, "1e+32"
RECURSIVE Shortest(_, _)
Shortest(m, d) == IF m # 0 /\ m % 10 = 0 /\ d > 1 THEN Shortest(m \div 10, d - 1) ELSE <<m, d>>
StrFloat(x) == LET s == Shortest(x.m, 8) IN Numeral(s[1], IF x.m = 0 THEN 1 ELSE s[2], x.e)


\* ------------------------------------------------------------------------
\* Lines
\* ------------------------------------------------------------------------
\* a line that starts with '>': eq says it starts with '>=', name is its first
\* word, args its further whitespace-separated tokens, bang whether it holds '!'
Mark(name, eq, args) == [k |-> "mark", eq |-> eq, name |-> name, bang |-> FALSE, args |-> args]
\* a token KEY=VALUE of a '>' line, and a token without '='
Arg(key, val) == [key |-> key, val |-> val]
Bare(t) == [bare |-> t]
\* KEY=VALUE[=...]: vals are the pieces after the first '='
KV(key, val) == [k |-> "kv", key |-> key, vals |-> <<val>>]
KV2(key, v1, v2) == [k |-> "kv", key |-> key, vals |-> <<v1, v2>>]
\* a text in double quotes
Quoted(t) == [qt |-> t]
\* a line of numbers
Data(toks) == [k |-> "data", toks |-> toks]
\* '!****FREQUENCIES****!'
Cmt(s) == [k |-> "cmt", s |-> s]
Blank == [k |-> "blank"]
\* free text of n characters (stripped), no '=' and no '>' in it
Txt(s, n) == [k |-> "txt", s |-> s, n |-> n]

\* line.find('>') == 0
StartsGT(l) == l.k = "mark"
\* line.find('>=') == 0
StartsGE(l) == l.k = "mark" /\ l.eq
\* line.find('!') != -1
HasBang(l) == l.k = "cmt" \/ (l.k = "mark" /\ l.bang)
\* len(line.strip())
StripLen(l) == CASE l.k = "blank" -> 0 [] l.k = "txt" -> l.n [] OTHER -> 3
\* value.replace('"', '')
Unquote(t) == IF "qt" \in DOMAIN t THEN t.qt ELSE t

\* str.lower() on the words the model's files hold
LowerTab ==
    [s \in {"HEAD", "INFO", "DEFINEMEAS", "MTSECT", "SPECTRASECT", "END", "HMEAS", "EMEAS",
            "FREQ", "ZROT", "TROT",
            "ZXXR", "ZXXI", "ZXX.VAR", "ZXYR", "ZXYI", "ZXY.VAR",
            "ZYXR", "ZYXI", "ZYX.VAR", "ZYYR", "ZYYI", "ZYY.VAR",
            "TXR.EXP", "TXI.EXP", "TXVAR.EXP", "TYR.EXP", "TYI.EXP", "TYVAR.EXP",
            "ACQBY", "ACQDATE", "DATAID", "ELEV", "EMPTY", "FILEBY", "FILEDATE", "LAT",
            "LOC", "LON", "LONG", "PROGDATE", "PROGVERS", "LATITUDE", "LONGITUDE",
            "ELEVATION", "STDVERS", "UNITS", "COUNTRY",
            "MAXCHAN", "MAXRUN", "MAXMEAS", "REFLAT", "REFLON", "REFLONG", "REFELEV",
            "REFTYPE", "REFLOC",
            "EX", "EY", "HX", "HY", "HZ", "NFREQ", "SECTID", "NCHAN", "MAXBLKS",
            "ID", "CHTYPE", "X", "Y", "Z", "X2", "Y2", "AZM", "ACQCHN", "ACQCHAN",
            "RHOXY", "ZDET", "TIPPER"} |->
       CASE s = "HEAD" -> "head" [] s = "INFO" -> "info" [] s = "DEFINEMEAS" -> "definemeas"
         [] s = "MTSECT" -> "mtsect" [] s = "SPECTRASECT" -> "spectrasect" [] s = "END" -> "end"
         [] s = "HMEAS" -> "hmeas" [] s = "EMEAS" -> "emeas"
         [] s = "FREQ" -> "freq" [] s = "ZROT" -> "zrot" [] s = "TROT" -> "trot"
         [] s = "ZXXR" -> "zxxr" [] s = "ZXXI" -> "zxxi" [] s = "ZXX.VAR" -> "zxx.var"
         [] s = "ZXYR" -> "zxyr" [] s = "ZXYI" -> "zxyi" [] s = "ZXY.VAR" -> "zxy.var"
         [] s = "ZYXR" -> "zyxr" [] s = "ZYXI" -> "zyxi" [] s = "ZYX.VAR" -> "zyx.var"
         [] s = "ZYYR" -> "zyyr" [] s = "ZYYI" -> "zyyi" [] s = "ZYY.VAR" -> "zyy.var"
         [] s = "TXR.EXP" -> "txr.exp" [] s = "TXI.EXP" -> "txi.exp" [] s = "TXVAR.EXP" -> "txvar.exp"
         [] s = "TYR.EXP" -> "tyr.exp" [] s = "TYI.EXP" -> "tyi.exp" [] s = "TYVAR.EXP" -> "tyvar.exp"
         [] s = "ACQBY" -> "acqby" [] s = "ACQDATE" -> "acqdate" [] s = "DATAID" -> "dataid"
         [] s = "ELEV" -> "elev" [] s = "EMPTY" -> "empty" [] s = "FILEBY" -> "fileby"
         [] s = "FILEDATE" -> "filedate" [] s = "LAT" -> "lat" [] s = "LOC" -> "loc"
         [] s = "LON" -> "lon" [] s = "LONG" -> "long" [] s = "PROGDATE" -> "progdate"
         [] s = "PROGVERS" -> "progvers" [] s = "LATITUDE" -> "latitude"
         [] s = "LONGITUDE" -> "longitude" [] s = "ELEVATION" -> "elevation"
         [] s = "STDVERS" -> "stdvers" [] s = "UNITS" -> "units" [] s = "COUNTRY" -> "country"
         [] s = "MAXCHAN" -> "maxchan" [] s = "MAXRUN" -> "maxrun" [] s = "MAXMEAS" -> "maxmeas"
         [] s = "REFLAT" -> "reflat" [] s = "REFLON" -> "reflon" [] s = "REFLONG" -> "reflong"
         [] s = "REFELEV" -> "refelev" [] s = "REFTYPE" -> "reftype" [] s = "REFLOC" -> "refloc"
         [] s = "EX" -> "ex" [] s = "EY" -> "ey" [] s = "HX" -> "hx" [] s = "HY" -> "hy"
         [] s = "HZ" -> "hz" [] s = "NFREQ" -> "nfreq" [] s = "SECTID" -> "sectid"
         [] s = "NCHAN" -> "nchan" [] s = "MAXBLKS" -> "maxblks"
         [] s = "ID" -> "id" [] s = "CHTYPE" -> "chtype" [] s = "X" -> "x" [] s = "Y" -> "y"
         [] s = "Z" -> "z" [] s = "X2" -> "x2" [] s = "Y2" -> "y2" [] s = "AZM" -> "azm"
         [] s = "ACQCHN" -> "acqchn" [] s = "ACQCHAN" -> "acqchan"
         [] s = "RHOXY" -> "rhoxy" [] s = "ZDET" -> "zdet" [] s = "TIPPER" -> "tipper"]
Lookup(tab, s) == IF s \in DOMAIN tab THEN tab[s] ELSE s
Lower(s) == Lookup(LowerTab, s)
\* str.upper(): the word of the table that lowers to s
Inverse(tab, s) == IF \E u \in DOMAIN tab : tab[u] = s
                   THEN CHOOSE u \in DOMAIN tab : tab[u] = s ELSE s
Upper(s) == Inverse(LowerTab, s)

\* line.lower().find(word) > 0 on a '>' line: the words the marker names hold
Finds(l, word) ==
    LET n == Lower(l.name)
    IN CASE word = "head" -> n = "head"
         [] word = "info" -> n = "info"
         [] word = "definemeas" -> n = "definemeas"
         [] word = "sect" -> n \in {"mtsect", "spectrasect"}
         [] word = "spect" -> n = "spectrasect"
         [] word = "mt" -> n = "mtsect"
         [] OTHER -> FALSE

\* key in word, Python's substring test, on the keys the model's files hold
SubstrOf(key, word) ==
    CASE word = "latitude" -> key \in {"lat", "latitude"}
      [] word = "longitude" -> key \in {"lon", "long", "longitude"}
      [] word = "elevation" -> key \in {"elev", "elevation"}
      [] word = "reflatitude" -> key \in {"reflat", "lat", "latitude"}
      [] word = "reflongitude" -> key \in {"reflon", "reflong", "lon", "long", "longitude"}
      [] word = "refelevation" -> key \in {"refelev", "elev", "elevation"}
      [] word = "maxchannels" -> key \in {"maxchan"}
      [] word = "maxmeasurements" -> key \in {"maxmeas"}
      [] OTHER -> FALSE

\* setattr(obj, key, value) on an object held as a function from attribute names
SetAttr(o, key, v) == [a \in DOMAIN o \cup {key} |-> IF a = key THEN v ELSE o[a]]
\* the outcome of a method on an object: the object as the method left it, and
\* the exception it raised ("" when it returned)
Done(o) == [o |-> o, exc |-> ""]
Fail(o, e) == [o |-> o, exc |-> e]

\* a Python list, as distinct from None
PList(s) == [list |-> s]
\* a path: a stem and the counters make_unique_filename has appended to it
Path(stem, sfx) == [stem |-> stem, sfx |-> sfx]
\* os.path.isfile(fn) in the file system fsys, a function from paths to files
IsFile(fsys, fn) == fn \in DOMAIN fsys

\* ------------------------------------------------------------------------
\* mtpy.utils.format (not among the sources): the position codec of the
\* specification, section 4.1
\* ------------------------------------------------------------------------
\* _assert_position_format(kind, value): decimal degrees of a number or of a
\* sexagesimal string, FormatError on a malformed one; for elevation metres,
\* 0.0 when the value is no number
AssertPositionFormat(kind, t) ==
    IF kind = "elev"
    THEN (CASE IsIntLit(t) -> Ok(PLen(1000 * t.il))
            [] IsDec(t) -> Ok(PLen(t.dn * Pow10(3 - t.dk)))
            [] OTHER -> Ok(PLen(0)))
    ELSE (CASE IsIntLit(t) -> Ok(PDeg(360000 * t.il))
            [] IsDec(t) -> Ok(PDeg((t.dn * 360000) \div Pow10(t.dk)))
            [] IsDms(t) -> Ok(PDeg(t.sg * (t.dd * 360000 + t.mi * 6000 + t.cs)))
            [] OTHER -> Raise("FormatError"))

\* convert_dms_tuple2string(convert_degrees2dms_tuple(value)): DD:MM:SS.ss of a
\* float, the sign on the degree field; None is no number
DegreesToDmsString(v) ==
    IF "casec" \in DOMAIN v
    THEN LET a == Abs(v.casec)
         IN Ok(Dms(IF v.casec < 0 THEN -1 ELSE 1, a \div 360000, (a % 360000) \div 6000, a % 6000))
    ELSE Raise("TypeError")

\* ------------------------------------------------------------------------
\* Header
\* ------------------------------------------------------------------------
Header0(fn) ==
    [edi_fn |-> fn, dataid |-> None, acqby |-> None, fileby |-> None, acqdate |-> None,
     units |-> None, filedate |-> W("utcnow"), loc |-> None, lat |-> None, lon |-> None,
     elev |-> None, empty |-> Flt(10000000, 32), progvers |-> None, progdate |-> None,
     phoenix_edi |-> PBool(FALSE), header_list |-> None]

\* sorted(self._header_keys)
HeaderKeysSorted == <<"acqby", "acqdate", "dataid", "elev", "empty", "fileby", "filedate",
                      "lat", "loc", "lon", "progdate", "progvers">>

\* _validate_header_list: quotes removed, only the lines that split('=') cuts
\* in exactly two are kept
RECURSIVE ValidateHeaderList(_)
ValidateHeaderList(list) ==
    IF list = <<>> THEN <<>>
    ELSE LET l == Head(list)
             rest == ValidateHeaderList(Tail(list))
         IN IF StripLen(l) > 1 /\ l.k = "kv" /\ Len(l.vals) = 1
            THEN <<KV(l.key, Unquote(l.vals[1]))>> \o rest
            ELSE rest

\* one pass of the loop of get_header_list on line l; st holds count,
\* head_find, the list so far, and stop once the loop is left by break
HeaderScanStep(st, l) ==
    IF StartsGT(l)
    THEN LET hf == Finds(l, "head")
         IN IF st.count + 1 = 2 /\ ~hf THEN [st EXCEPT !.stop = TRUE]
            ELSE [st EXCEPT !.count = @ + 1, !.head_find = hf]
    ELSE IF st.count = 1 /\ st.head_find /\ StripLen(l) > 2
    THEN [st EXCEPT !.acc = Append(@, l)]
    ELSE st
\* the loop over the lines lo..hi, the two halves one after the other
RECURSIVE HeaderScanFold(_, _, _, _)
HeaderScanFold(lines, lo, hi, st) ==
    IF lo > hi \/ st.stop THEN st
    ELSE IF lo = hi THEN HeaderScanStep(st, lines[lo])
    ELSE LET mid == (lo + hi) \div 2
             s1 == HeaderScanFold(lines, lo, mid, st)
         IN HeaderScanFold(lines, mid + 1, hi, s1)
HeaderScan(lines) ==
    HeaderScanFold(lines, 1, Len(lines),
                   [count |-> 0, head_find |-> FALSE, acc |-> <<>>, stop |-> FALSE]).acc

\* Header.get_header_list
GetHeaderList(o, fsys) ==
    IF IsNone(o.edi_fn) THEN Done(o)
    ELSE IF ~IsFile(fsys, o.edi_fn) THEN Fail(SetAttr(o, "header_list", PList(<<>>)), "IOError")
    ELSE Done(SetAttr(o, "header_list",
                      PList(ValidateHeaderList(HeaderScan(fsys[o.edi_fn])))))

\* value.lower().find('mt-editor') != -1
HasMtEditor(t) == IsW(t) /\ t.w \in {"MT-Editor"}
\* float(value) of an elevation, ValueError giving 0.0
ElevFloat(t) ==
    CASE IsIntLit(t) -> PLen(1000 * t.il)
      [] IsDec(t) -> PLen(t.dn * Pow10(3 - t.dk))
      [] OTHER -> PLen(0)

\* read_header as it would be if a position that does not parse were skipped
HeaderLineLenient(o, h_line) ==
    With(Lower(h_line.key), LAMBDA key :
    With(Unquote(h_line.vals[1]), LAMBDA value :
       IF SubstrOf(key, "latitude")
       THEN With(AssertPositionFormat("lat", value), LAMBDA p :
                 IF p.ok THEN Done(SetAttr(o, "lat", p.v)) ELSE Done(o))
       ELSE IF SubstrOf(key, "longitude")
       THEN With(AssertPositionFormat("lon", value), LAMBDA p :
                 IF p.ok THEN Done(SetAttr(o, "lon", p.v)) ELSE Done(o))
       ELSE IF SubstrOf(key, "elevation")
       THEN Done(SetAttr(o, "elev", ElevFloat(value)))
       ELSE IF key \in {"country", "state", "loc", "location", "prospect"}
       THEN Done(SetAttr(o, "loc", IF IsNone(o.loc) THEN value ELSE [cat |-> <<o.loc, value>>]))
       ELSE IF key = "progvers"
       THEN Done(SetAttr(IF HasMtEditor(value) THEN SetAttr(o, "phoenix_edi", PBool(TRUE)) ELSE o,
                         key, value))
       ELSE IF key = "fileby"
       THEN Done(SetAttr(o, key, IF value = W("") THEN W("mtpy") ELSE value))
       ELSE Done(SetAttr(o, key, value))))

\* one pass of the loop of read_header, lines 697-733
HeaderLine(o, h_line) ==
    With(Lower(h_line.key), LAMBDA key :
    With(Unquote(h_line.vals[1]), LAMBDA value :
       IF SubstrOf(key, "latitude")
       THEN With(AssertPositionFormat("lat", value), LAMBDA p :
                 IF p.ok THEN Done(SetAttr(o, "lat", p.v)) ELSE Fail(o, p.exc))
       ELSE IF SubstrOf(key, "longitude")
       THEN With(AssertPositionFormat("lon", value), LAMBDA p :
                 IF p.ok THEN Done(SetAttr(o, "lon", p.v)) ELSE Fail(o, p.exc))
       ELSE IF SubstrOf(key, "elevation")
       THEN Done(SetAttr(o, "elev", ElevFloat(value)))
       ELSE IF key \in {"country", "state", "loc", "location", "prospect"}
       THEN Done(SetAttr(o, "loc", IF IsNone(o.loc) THEN value ELSE [cat |-> <<o.loc, value>>]))
       ELSE IF key = "progvers"
       THEN Done(SetAttr(IF HasMtEditor(value) THEN SetAttr(o, "phoenix_edi", PBool(TRUE)) ELSE o,
                         key, value))
       ELSE IF key = "fileby"
       THEN Done(SetAttr(o, key, IF value = W("") THEN W("mtpy") ELSE value))
       ELSE Done(SetAttr(o, key, value))))

RECURSIVE HeaderLoop(_, _, _)
HeaderLoop(o, list, i) ==
    IF i > Len(list) THEN Done(o)
    ELSE With(HeaderLine(o, list[i]),
              LAMBDA r : IF r.exc # "" THEN r ELSE HeaderLoop(r.o, list, i + 1))

\* Header.read_header(header_list = arg)
ReadHeader(o, fsys, arg) ==
    With(IF IsNone(arg) THEN o
         ELSE SetAttr(o, "header_list", PList(ValidateHeaderList(arg.list))), LAMBDA o1 :
    With(IF IsNone(o1.header_list) /\ ~IsNone(o1.edi_fn) THEN GetHeaderList(o1, fsys)
         ELSE Done(o1), LAMBDA r2 :
       IF r2.exc # "" THEN r2
       ELSE IF IsNone(r2.o.header_list) THEN Fail(r2.o, "TypeError")
       ELSE HeaderLoop(r2.o, r2.o.header_list.list, 1)))

\* Header(edi_fn = fn)
NewHeader(fn, fsys) == IF IsNone(fn) THEN Done(Header0(fn)) ELSE ReadHeader(Header0(fn), fsys, None)

\* ------------------------------------------------------------------------
\* Information
\* ------------------------------------------------------------------------
Information0(fn) == [edi_fn |-> fn, info_list |-> None]

\* _validate_info_list: lines of at most one character and lines that start
\* with '>' are dropped
RECURSIVE ValidateInfoList(_)
ValidateInfoList(list) ==
    IF list = <<>> THEN <<>>
    ELSE LET l == Head(list)
             rest == ValidateInfoList(Tail(list))
         IN IF StripLen(l) > 1 /\ ~StartsGT(l) THEN <<l>> \o rest ELSE rest

\* line.lower().find('run information') >= 0
HasRunInformation(l) == l.k = "txt" /\ l.s = "RUN INFORMATION"
\* len(line) > 40
LongLine(l) == l.k = "txt" /\ l.n > 40
\* line[0:37].strip() and line[38:].strip() of a two-column line
InfoColumn(l, c) == [k |-> "txt", s |-> l.s, n |-> 20, col |-> c]

\* one pass of the loop of get_info_list on line l; st holds count, info_find,
\* phoenix_file, the lists info_list and phoenix_list_02, and stop after break
InfoScanStep(st, l) ==
    IF StartsGT(l)
    THEN LET f == Finds(l, "info")
         IN IF st.count + 1 > 2 /\ ~f THEN [st EXCEPT !.stop = TRUE]
            ELSE [st EXCEPT !.count = @ + 1, !.info_find = f]
    ELSE IF st.count > 1 /\ st.info_find
    THEN LET ph == st.phoenix_file \/ HasRunInformation(l)
         IN IF ph /\ LongLine(l)
            THEN [st EXCEPT !.phoenix_file = ph,
                            !.info_list = Append(@, InfoColumn(l, 1)),
                            !.phoenix_list_02 = Append(@, InfoColumn(l, 2))]
            ELSE IF StripLen(l) > 1
            THEN [st EXCEPT !.phoenix_file = ph, !.info_list = Append(@, l)]
            ELSE [st EXCEPT !.phoenix_file = ph]
    ELSE st
RECURSIVE InfoScanFold(_, _, _, _)
InfoScanFold(lines, lo, hi, st) ==
    IF lo > hi \/ st.stop THEN st
    ELSE IF lo = hi THEN InfoScanStep(st, lines[lo])
    ELSE LET mid == (lo + hi) \div 2
             s1 == InfoScanFold(lines, lo, mid, st)
         IN InfoScanFold(lines, mid + 1, hi, s1)
InfoScan(lines) ==
    With(InfoScanFold(lines, 1, Len(lines),
                      [count |-> 0, info_find |-> FALSE, phoenix_file |-> FALSE,
                       info_list |-> <<>>, phoenix_list_02 |-> <<>>, stop |-> FALSE]),
         LAMBDA st : st.info_list \o st.phoenix_list_02)

\* Information.get_info_list
GetInfoList(o, fsys) ==
    IF IsNone(o.edi_fn) \/ ~IsFile(fsys, o.edi_fn) THEN Done(o)
    ELSE Done(SetAttr(o, "info_list", PList(ValidateInfoList(InfoScan(fsys[o.edi_fn])))))

\* Information.read_info(info_list = arg)
ReadInfo(o, fsys, arg) ==
    With(IF IsNone(arg) THEN o
         ELSE SetAttr(o, "info_list", PList(ValidateInfoList(arg.list))), LAMBDA o1 :
       IF ~IsNone(o1.edi_fn) /\ IsNone(o1.info_list) THEN GetInfoList(o1, fsys) ELSE Done(o1))

\* Information(edi_fn = fn)
NewInformation(fn, fsys) ==
    IF IsNone(fn) THEN Done(Information0(fn)) ELSE ReadInfo(Information0(fn), fsys, None)

\* ------------------------------------------------------------------------
\* DefineMeasurement, HMeasurement, EMeasurement
\* ------------------------------------------------------------------------
\* the meas_<NN> attributes are held in the attribute "meas", a function from
\* the number NN to the channel object
DefineMeasurement0(fn) ==
    [edi_fn |-> fn, measurement_list |-> None, maxchan |-> None, maxmeas |-> PInt(7),
     maxrun |-> PInt(999), refelev |-> None, reflat |-> None, reflon |-> None,
     reftype |-> W("cartesian"), units |-> W("m"), meas |-> <<>>]

DefineMeasKeys == <<"maxchan", "maxrun", "maxmeas", "reflat", "reflon", "refelev",
                    "reftype", "units">>

\* a float of a channel record: n * 10^-k, k the fewest decimals that hold it
RECURSIVE PDec(_, _)
PDec(n, k) == IF k > 0 /\ n % 10 = 0 THEN PDec(n \div 10, k - 1) ELSE [fn |-> n, fk |-> k]
IsPDec(v) == "fn" \in DOMAIN v
\* float(kwargs[key]) of a channel record: ValueError on what is no number
MeasFloat(t) ==
    CASE IsIntLit(t) -> Ok(PDec(t.il, 0))
      [] IsDec(t) -> Ok(PDec(t.dn, t.dk))
      [] OTHER -> Raise("ValueError")

\* the dictionary of a '>XMEAS' line, lines 1061-1067: one entry per token,
\* IndexError on a token without '='
RECURSIVE MeasDict(_, _, _)
MeasDict(args, i, d) ==
    IF i > Len(args) THEN Ok(d)
    ELSE IF "bare" \in DOMAIN args[i] THEN Raise("IndexError")
    ELSE MeasDict(args, i + 1, SetAttr(d, Lower(args[i].key), args[i].val))

\* one pass of the loop of get_measurement_lists on line l; st holds count,
\* meas_find, the list so far, stop after break and the exception raised
MeasScanStep(st, l) ==
    IF StartsGE(l)
    THEN LET f == Finds(l, "definemeas")
         IN IF st.count + 1 = 2 /\ ~f THEN [st EXCEPT !.stop = TRUE]
            ELSE [st EXCEPT !.count = @ + 1, !.meas_find = f]
    ELSE IF st.count = 1 /\ ~StartsGT(l) /\ st.meas_find
    THEN (IF StripLen(l) > 2 THEN [st EXCEPT !.acc = Append(@, l)] ELSE st)
    ELSE IF st.count = 1 /\ StartsGT(l) /\ st.meas_find
    THEN IF HasBang(l) THEN st
         ELSE LET d == MeasDict(l.args, 1, <<>>)
              IN IF d.ok THEN [st EXCEPT !.acc = Append(@, [dict |-> d.v])]
                 ELSE [st EXCEPT !.stop = TRUE, !.exc = d.exc]
    ELSE st
RECURSIVE MeasScanFold(_, _, _, _)
MeasScanFold(lines, lo, hi, st) ==
    IF lo > hi \/ st.stop THEN st
    ELSE IF lo = hi THEN MeasScanStep(st, lines[lo])
    ELSE LET mid == (lo + hi) \div 2
             s1 == MeasScanFold(lines, lo, mid, st)
         IN MeasScanFold(lines, mid + 1, hi, s1)
MeasScan(lines) ==
    MeasScanFold(lines, 1, Len(lines),
                 [count |-> 0, meas_find |-> FALSE, acc |-> <<>>, stop |-> FALSE, exc |-> ""])

\* DefineMeasurement.get_measurement_lists
GetMeasurementLists(o, fsys) ==
    IF IsNone(o.edi_fn) THEN Done(o)
    ELSE IF ~IsFile(fsys, o.edi_fn)
    THEN Fail(SetAttr(o, "measurement_list", PList(<<>>)), "IOError")
    ELSE With(MeasScan(fsys[o.edi_fn]), LAMBDA r :
            IF r.exc = "" THEN Done(SetAttr(o, "measurement_list", PList(r.acc)))
            ELSE Fail(SetAttr(o, "measurement_list", PList(r.acc)), r.exc))

\* HMeasurement(**kwargs) and EMeasurement(**kwargs): every keyword becomes an
\* attribute, a float when float() takes it and the string otherwise
MeasKwList(kind) == IF kind = "h" THEN <<"id", "chtype", "x", "y", "azm", "acqchan">>
                    ELSE <<"id", "chtype", "x", "y", "x2", "y2", "acqchan">>
MeasFmtList(kind) == IF kind = "h" THEN <<"<4.4g", "<3", "<4.1f", "<4.1f", "<4.1f", "<4">>
                     ELSE <<"<4.4g", "<3", "<4.1f", "<4.1f", "<4.1f", "<4.1f", "<4">>
SeqRange(q) == {q[i] : i \in DOMAIN q}
NewMeasurement(kind, kwargs) ==
    [kind |-> kind,
     at |-> [a \in SeqRange(MeasKwList(kind)) \cup DOMAIN kwargs |->
               IF a \in DOMAIN kwargs
               THEN (LET f == MeasFloat(kwargs[a]) IN IF f.ok THEN f.v ELSE kwargs[a])
               ELSE None]]

\* value.lower().find('h') >= 0 and find('e') >= 0 on the channel types
HasH(t) == IsW(t) /\ t.w \in {"HX", "HY", "HZ", "RHX", "RHY", "hx", "hy", "hz"}
HasE(t) == IsW(t) /\ t.w \in {"EX", "EY", "ex", "ey"}

\* int(value): an integer literal, ValueError otherwise
PyInt(t) == IF IsIntLit(t) THEN Ok(PInt(t.il)) ELSE Raise("ValueError")

\* 'meas_{0:02.0f}'.format(float(id)): the number NN, the float rounded
MeasNumber(f) == IF f.fk = 0 THEN f.fn
                 ELSE LET p == Pow10(f.fk) IN (2 * f.fn + p) \div (2 * p)

\* one pass of the loop of read_define_measurement, lines 1105-1135; st holds
\* the object and the local variable value (unbound before the first pass)
DefineLine(st, line) ==
    LET o == st.o
    IN IF "k" \in DOMAIN line
       THEN IF line.k # "kv" THEN [o |-> o, exc |-> "IndexError", value |-> st.value]
            ELSE LET key == Lower(line.key)
                     value == line.vals[1]
                     set(k, v) == [o |-> SetAttr(o, k, v), exc |-> "", value |-> v]
                     fail(e) == [o |-> o, exc |-> e, value |-> value]
                 IN IF SubstrOf(key, "reflatitude")
                    THEN LET p == AssertPositionFormat("lat", value)
                         IN IF p.ok THEN set("reflat", p.v) ELSE fail(p.exc)
                    ELSE IF SubstrOf(key, "reflongitude")
                    THEN LET p == AssertPositionFormat("lon", value)
                         IN IF p.ok THEN set("reflon", p.v) ELSE fail(p.exc)
                    ELSE IF SubstrOf(key, "refelevation")
                    THEN LET p == AssertPositionFormat("elev", value)
                         IN IF p.ok THEN set("refelev", p.v) ELSE fail(p.exc)
                    ELSE IF SubstrOf(key, "maxchannels")
                    THEN LET p == PyInt(value)
                         IN IF p.ok THEN set("maxchan", p.v) ELSE fail(p.exc)
                    ELSE IF SubstrOf(key, "maxmeasurements")
                    THEN LET p == PyInt(value)
                         IN IF p.ok THEN set("maxmeas", p.v) ELSE fail(p.exc)
                    ELSE set(key, value)
       ELSE LET d == line.dict
                fail(e) == [o |-> o, exc |-> e, value |-> st.value]
                idf == IF "id" \in DOMAIN d THEN MeasFloat(d["id"]) ELSE Raise("KeyError")
            IN IF ~idf.ok /\ idf.exc # "KeyError" THEN fail(idf.exc)
               ELSE IF "chtype" \notin DOMAIN d THEN fail("KeyError")
               ELSE LET nn == IF idf.ok THEN MeasNumber(idf.v) ELSE 1
                        value == IF HasH(d["chtype"]) THEN NewMeasurement("h", d)
                                 ELSE IF HasE(d["chtype"]) THEN NewMeasurement("e", d)
                                 ELSE st.value
                    IN IF "unbound" \in DOMAIN value THEN fail("UnboundLocalError")
                       ELSE [o |-> SetAttr(o, "meas", SetAttr(o.meas, nn, value)),
                             exc |-> "", value |-> value]

RECURSIVE DefineLoop(_, _, _)
DefineLoop(st, list, i) ==
    IF i > Len(list) THEN Done(st.o)
    ELSE With(DefineLine(st, list[i]),
              LAMBDA r : IF r.exc # "" THEN Fail(r.o, r.exc) ELSE DefineLoop(r, list, i + 1))

\* DefineMeasurement.read_define_measurement(measurement_list = arg)
ReadDefineMeasurement(o, fsys, arg) ==
    With(IF IsNone(arg) THEN o ELSE SetAttr(o, "measurement_list", arg), LAMBDA o1 :
    With(IF IsNone(o1.measurement_list) /\ ~IsNone(o1.edi_fn)
         THEN GetMeasurementLists(o1, fsys) ELSE Done(o1), LAMBDA r2 :
       IF r2.exc # "" THEN r2
       ELSE IF IsNone(r2.o.measurement_list) THEN Done(r2.o)
       ELSE DefineLoop([o |-> r2.o, exc |-> "", value |-> [unbound |-> TRUE]],
                       r2.o.measurement_list.list, 1)))

\* DefineMeasurement(edi_fn = fn)
NewDefineMeasurement(fn, fsys) ==
    IF IsNone(fn) THEN Done(DefineMeasurement0(fn))
    ELSE ReadDefineMeasurement(DefineMeasurement0(fn), fsys, None)

\* ------------------------------------------------------------------------
\* DataSection
\* ------------------------------------------------------------------------
DataSectKwList == <<"ex", "ey", "hx", "hy", "hz", "nfreq", "sectid", "nchan", "maxblks">>

DataSection0(fn) ==
    [edi_fn |-> fn, data_type |-> W("z"), line_num |-> 0, data_sect_list |-> None,
     ex |-> None, ey |-> None, hx |-> None, hy |-> None, hz |-> None, nfreq |-> None,
     sectid |-> None, nchan |-> None, maxblks |-> None]

\* the pass of the loop of get_data_sect as it would be if the lines after the
\* marker were kept whatever the count of the '>=' lines
DataSectScanStepAnyCount(st, l, ii) ==
    IF StartsGE(l)
    THEN With(Finds(l, "sect"), LAMBDA f :
         With([st EXCEPT !.count = @ + 1, !.data_sect_find = f], LAMBDA s1 :
         With(IF f
              THEN [s1 EXCEPT !.line_num = ii,
                              !.data_type = IF Finds(l, "spect") THEN W("spectra")
                                            ELSE IF Finds(l, "mt") THEN W("z")
                                            ELSE @]
              ELSE s1, LAMBDA s2 :
            IF s2.count > 2 /\ ~f THEN [s2 EXCEPT !.stop = TRUE] ELSE s2)))
    ELSE IF ~StartsGT(l) /\ st.data_sect_find /\ StripLen(l) > 2
    THEN [st EXCEPT !.list = Append(@, l)]
    ELSE st

\* one pass of the loop of get_data_sect, lines 1367-1384, on line l, the
\* ii-th of the file counted from 0; st holds count, data_sect_find, line_num,
\* data_type, the list so far, and stop after break
DataSectScanStep(st, l, ii) ==
    IF StartsGE(l)
    THEN With(Finds(l, "sect"), LAMBDA f :
         With([st EXCEPT !.count = @ + 1, !.data_sect_find = f], LAMBDA s1 :
         With(IF f
              THEN [s1 EXCEPT !.line_num = ii,
                              !.data_type = IF Finds(l, "spect") THEN W("spectra")
                                            ELSE IF Finds(l, "mt") THEN W("z")
                                            ELSE @]
              ELSE s1, LAMBDA s2 :
            IF s2.count > 2 /\ ~f THEN [s2 EXCEPT !.stop = TRUE] ELSE s2)))
    ELSE IF st.count = 2 /\ ~StartsGT(l) /\ st.data_sect_find /\ StripLen(l) > 2
    THEN [st EXCEPT !.list = Append(@, l)]
    ELSE st
RECURSIVE DataSectScanFold(_, _, _, _)
DataSectScanFold(lines, lo, hi, st) ==
    IF lo > hi \/ st.stop THEN st
    ELSE IF lo = hi THEN DataSectScanStep(st, lines[lo], lo - 1)
    ELSE LET mid == (lo + hi) \div 2
             s1 == DataSectScanFold(lines, lo, mid, st)
         IN DataSectScanFold(lines, mid + 1, hi, s1)
DataSectScan(lines, line_num, data_type) ==
    DataSectScanFold(lines, 1, Len(lines),
                     [count |-> 0, data_sect_find |-> FALSE, line_num |-> line_num,
                      data_type |-> data_type, list |-> <<>>, stop |-> FALSE])

\* DataSection.get_data_sect
GetDataSect(o, fsys) ==
    IF IsNone(o.edi_fn) \/ ~IsFile(fsys, o.edi_fn) THEN Fail(o, "MTpyError_EDI")
    ELSE With(DataSectScan(fsys[o.edi_fn], o.line_num, o.data_type), LAMBDA st :
            Done([o EXCEPT !.data_sect_list = PList(st.list), !.line_num = st.line_num,
                           !.data_type = st.data_type]))

\* one pass of the loop of read_data_sect, lines 1397-1406
DataSectLine(o, d_line) ==
    IF d_line.k = "kv"
    THEN With(PyInt(d_line.vals[1]), LAMBDA n :
            SetAttr(o, Lower(d_line.key), IF n.ok THEN n.v ELSE Unquote(d_line.vals[1])))
    ELSE o
RECURSIVE DataSectFold(_, _, _, _)
DataSectFold(list, lo, hi, o) ==
    IF lo > hi \/ DOMAIN o = {} THEN o
    ELSE IF lo = hi THEN DataSectLine(o, list[lo])
    ELSE LET mid == (lo + hi) \div 2
             o1 == DataSectFold(list, lo, mid, o)
         IN DataSectFold(list, mid + 1, hi, o1)
DataSectLoop(o, list) == Done(DataSectFold(list, 1, Len(list), o))

\* DataSection.read_data_sect(data_sect_list = arg)
ReadDataSect(o, fsys, arg) ==
    With(IF IsNone(arg) THEN o ELSE SetAttr(o, "data_sect_list", arg), LAMBDA o1 :
    With(IF ~IsNone(o1.edi_fn) /\ IsNone(o1.data_sect_list) THEN GetDataSect(o1, fsys)
         ELSE Done(o1), LAMBDA r2 :
       IF r2.exc # "" THEN r2
       ELSE IF IsNone(r2.o.data_sect_list) THEN Fail(r2.o, "TypeError")
       ELSE DataSectLoop(r2.o, r2.o.data_sect_list.list)))

\* DataSection(edi_fn = fn)
NewDataSection(fn, fsys) ==
    IF IsNone(fn) THEN Done(DataSection0(fn)) ELSE ReadDataSect(DataSection0(fn), fsys, None)

\* ------------------------------------------------------------------------
\* mtpy.core.z (not among the sources): the impedance tensor and the tipper
\* of the specification, section 3
\* ------------------------------------------------------------------------
\* a numpy array, as distinct from None and from a scalar
Arr(q) == [arr |-> q]
IsArr(v) == "arr" \in DOMAIN v
Cplx(re, im) == [re |-> re, im |-> im]
\* MTz.Z() and MTz.Tipper(): nothing set, the rotation angle the scalar 0.0
Z0 == [freq |-> None, z |-> None, zerr |-> None, rotation_angle |-> Zero]
Tipper0 == [freq |-> None, tipper |-> None, tippererr |-> None, rotation_angle |-> Zero]
\* assigning Z.z: the rotation angle of the impedance is held per frequency
ZSetZ(Z, z) ==
    [Z EXCEPT !.z = z,
              !.rotation_angle = IF IsFlt(@) THEN Arr([k \in 1..Len(z.arr) |-> @]) ELSE @]

\* ------------------------------------------------------------------------
\* Edi._read_mt
\* ------------------------------------------------------------------------
\* key[0] == 'z' or key[0] == 't' or key == 'freq', on the marker words: the
\* labels of the blocks, and 'zdet' and 'tipper', which name no block
ZLabels == <<<<"zxxr", "zxxi", "zxx.var">>, <<"zxyr", "zxyi", "zxy.var">>,
             <<"zyxr", "zyxi", "zyx.var">>, <<"zyyr", "zyyi", "zyy.var">>>>
TLabels == <<<<"txr.exp", "txi.exp", "txvar.exp">>, <<"tyr.exp", "tyi.exp", "tyvar.exp">>>>
StartsZ(key) == key \in {"zrot", "zdet"} \/ \E a \in 1..4, b \in 1..3 : ZLabels[a][b] = key
StartsT(key) == key \in {"trot", "tipper"} \/ \E a \in 1..2, b \in 1..3 : TLabels[a][b] = key
OpensBlock(key) == StartsZ(key) \/ StartsT(key) \/ key = "freq"

\* lines 226-235 on one token: the float, 1.0e32 and what is no number as 0.0
DecodeToken(dd) ==
    LET f == PyFloat(dd)
    IN IF f.ok THEN (IF f.v = Sentinel1e32 THEN Zero ELSE f.v) ELSE Zero

\* line.strip().split() of a line without '>' and '!': its tokens (a KEY=VALUE
\* line and a text line are one token each)
Tokens(l) == CASE l.k = "data" -> l.toks
               [] l.k = "blank" -> <<>>
               [] OTHER -> <<W("?")>>

\* one pass of the loop as it would be if a marker with another label left
\* the open block open
BlockScanStepKeepOpen(st, l) ==
    IF StartsGT(l) /\ ~HasBang(l)
    THEN LET key == Lower(l.name)
         IN IF OpensBlock(key)
            THEN [data_dict |-> SetAttr(st.data_dict, key, <<>>), data_find |-> TRUE, key |-> key]
            ELSE st
    ELSE IF st.data_find /\ ~StartsGT(l) /\ ~HasBang(l)
    THEN LET t == Tokens(l)
             d_lines == [ii \in 1..Len(t) |-> DecodeToken(t[ii])]
         IN [st EXCEPT !.data_dict[st.key] = @ \o d_lines]
    ELSE st

\* one pass of the loop of _read_mt, lines 213-236, on line l; st holds
\* data_dict, data_find and key
BlockScanStep(st, l) ==
    IF StartsGT(l) /\ ~HasBang(l)
    THEN LET key == Lower(l.name)
         IN IF OpensBlock(key)
            THEN [data_dict |-> SetAttr(st.data_dict, key, <<>>), data_find |-> TRUE, key |-> key]
            ELSE [st EXCEPT !.data_find = FALSE, !.key = key]
    ELSE IF st.data_find /\ ~StartsGT(l) /\ ~HasBang(l)
    THEN LET t == Tokens(l)
             d_lines == [ii \in 1..Len(t) |-> DecodeToken(t[ii])]
         IN [st EXCEPT !.data_dict[st.key] = @ \o d_lines]
    ELSE st
RECURSIVE BlockScan(_, _, _, _)
BlockScan(lines, lo, hi, st) ==
    IF lo > hi \/ DOMAIN st = {} THEN st
    ELSE IF lo = hi THEN BlockScanStep(st, lines[lo])
    ELSE LET mid == (lo + hi) \div 2
             s1 == BlockScan(lines, lo, mid, st)
         IN BlockScan(lines, mid + 1, hi, s1)

DataDict(lines) ==
    BlockScan(lines, 1, Len(lines), [data_dict |-> <<>>, data_find |-> FALSE, key |-> ""]).data_dict

\* numpy: a + b*1j of two one-dimensional arrays, broadcast when one of them
\* has one element, ValueError when the lengths do not go together
Broadcast(a, b) ==
    IF Len(a) = Len(b) THEN Ok([k \in 1..Len(a) |-> Cplx(a[k], b[k])])
    ELSE IF Len(a) = 1 THEN Ok([k \in 1..Len(b) |-> Cplx(a[1], b[k])])
    ELSE IF Len(b) = 1 THEN Ok([k \in 1..Len(a) |-> Cplx(a[k], b[1])])
    ELSE Raise("ValueError")
\* numpy: x[:, i, j] = v for x of n rows: v has n elements or one, else ValueError
BroadcastTo(n, v) ==
    IF Len(v) = n THEN Ok(v)
    ELSE IF Len(v) = 1 THEN Ok([k \in 1..n |-> v[1]])
    ELSE Raise("ValueError")
\* numpy.zeros((n, rows, 2)): n an int >= 0, TypeError on None or a string
Zeros(n, rows, zero) ==
    IF "pint" \notin DOMAIN n THEN Raise("TypeError")
    ELSE IF n.pint < 0 THEN Raise("ValueError")
    ELSE Ok(Arr([k \in 1..n.pint |-> [i \in 0..(rows - 1) |-> [j \in 0..1 |-> zero]]]))
SetColumn(x, i, j, v) == Arr([k \in 1..Len(x.arr) |-> [x.arr[k] EXCEPT ![i][j] = v[k]]])
GetColumn(x, i, j) == [k \in 1..Len(x.arr) |-> x.arr[k][i][j]]

\* st holds Z, Tipper and the exception raised so far; each step below is one
\* statement of lines 246-275 and does nothing once an exception is raised
ZColumnStep(st, dd, i, j, rk, ik) ==
    IF st.exc # "" THEN st
    ELSE IF rk \notin DOMAIN dd \/ ik \notin DOMAIN dd THEN [st EXCEPT !.exc = "KeyError"]
    ELSE LET b == Broadcast(dd[rk], dd[ik])
         IN IF ~b.ok THEN [st EXCEPT !.exc = b.exc]
            ELSE LET c == BroadcastTo(Len(st.Z.z.arr), b.v)
                 IN IF ~c.ok THEN [st EXCEPT !.exc = c.exc]
                    ELSE [st EXCEPT !.Z.z = SetColumn(@, i, j, c.v)]
ZErrColumnStep(st, dd, i, j, vk) ==
    IF st.exc # "" THEN st
    ELSE IF vk \notin DOMAIN dd THEN [st EXCEPT !.exc = "KeyError"]
    ELSE LET c == BroadcastTo(Len(st.Z.zerr.arr), dd[vk])
         IN IF ~c.ok THEN [st EXCEPT !.exc = c.exc]
            ELSE [st EXCEPT !.Z.zerr = SetColumn(@, i, j, c.v)]
TColumnStep(st, dd, j, rk, ik) ==
    IF st.exc # "" THEN st
    ELSE IF rk \notin DOMAIN dd \/ ik \notin DOMAIN dd THEN [st EXCEPT !.exc = "KeyError"]
    ELSE LET b == Broadcast(dd[rk], dd[ik])
         IN IF ~b.ok THEN [st EXCEPT !.exc = b.exc]
            ELSE LET c == BroadcastTo(Len(st.Tipper.tipper.arr), b.v)
                 IN IF ~c.ok THEN [st EXCEPT !.exc = c.exc]
                    ELSE [st EXCEPT !.Tipper.tipper = SetColumn(@, 0, j, c.v)]
TErrColumnStep(st, dd, j, vk) ==
    IF st.exc # "" THEN st
    ELSE IF vk \notin DOMAIN dd THEN [st EXCEPT !.exc = "KeyError"]
    ELSE LET c == BroadcastTo(Len(st.Tipper.tippererr.arr), dd[vk])
         IN IF ~c.ok THEN [st EXCEPT !.exc = c.exc]
            ELSE [st EXCEPT !.Tipper.tippererr = SetColumn(@, 0, j, c.v)]

\* the test of line 268 as it would be on any tipper block
HasAnyTipper(dd) == \E k \in DOMAIN dd : StartsT(k) /\ k # "trot"

\* 'txr.exp' in data_dict.keys(), line 268
HasTipper(dd) == "txr.exp" \in DOMAIN dd

\* lines 262-278: the tipper arrays, filled when the file has a tipper
FillTipper(st, dd, nfreq) ==
    IF st.exc # "" THEN st
    ELSE LET t == Zeros(nfreq, 1, Cplx(Zero, Zero))
             te == Zeros(nfreq, 1, Zero)
         IN IF ~t.ok THEN [st EXCEPT !.exc = t.exc]
            ELSE LET s0 == [st EXCEPT !.Tipper.tipper = t.v, !.Tipper.tippererr = te.v,
                                      !.Tipper.freq = Arr(dd["freq"])]
                 IN IF HasTipper(dd)
                    THEN TErrColumnStep(
                           TErrColumnStep(
                             TColumnStep(
                               TColumnStep(s0, dd, 0, "txr.exp", "txi.exp"),
                               dd, 1, "tyr.exp", "tyi.exp"),
                             dd, 0, "txvar.exp"),
                           dd, 1, "tyvar.exp")
                    ELSE s0

\* lines 241-258 as they would be with the blocks of zxy and zyx filling each
\* other's entry of the tensor
FillZTransposed(st, dd, nfreq) ==
    LET z == Zeros(nfreq, 2, Cplx(Zero, Zero))
        ze == Zeros(nfreq, 2, Zero)
        s0 == [st EXCEPT !.Z.freq = Arr(dd["freq"])]
    IN IF ~z.ok THEN [s0 EXCEPT !.exc = z.exc]
       ELSE LET s1 == [s0 EXCEPT !.Z = [ZSetZ(@, z.v) EXCEPT !.zerr = ze.v]]
                s2 == ZColumnStep(s1, dd, 0, 0, "zxxr", "zxxi")
                s3 == ZColumnStep(s2, dd, 1, 0, "zxyr", "zxyi")
                s4 == ZColumnStep(s3, dd, 0, 1, "zyxr", "zyxi")
                s5 == ZColumnStep(s4, dd, 1, 1, "zyyr", "zyyi")
                s6 == ZErrColumnStep(s5, dd, 0, 0, "zxx.var")
                s7 == ZErrColumnStep(s6, dd, 1, 0, "zxy.var")
                s8 == ZErrColumnStep(s7, dd, 0, 1, "zyx.var")
            IN ZErrColumnStep(s8, dd, 1, 1, "zyy.var")

\* lines 241-258: the impedance arrays
FillZ(st, dd, nfreq) ==
    LET z == Zeros(nfreq, 2, Cplx(Zero, Zero))
        ze == Zeros(nfreq, 2, Zero)
        s0 == [st EXCEPT !.Z.freq = Arr(dd["freq"])]
    IN IF ~z.ok THEN [s0 EXCEPT !.exc = z.exc]
       ELSE LET s1 == [s0 EXCEPT !.Z = [ZSetZ(@, z.v) EXCEPT !.zerr = ze.v]]
                s2 == ZColumnStep(s1, dd, 0, 0, "zxxr", "zxxi")
                s3 == ZColumnStep(s2, dd, 0, 1, "zxyr", "zxyi")
                s4 == ZColumnStep(s3, dd, 1, 0, "zyxr", "zyxi")
                s5 == ZColumnStep(s4, dd, 1, 1, "zyyr", "zyyi")
                s6 == ZErrColumnStep(s5, dd, 0, 0, "zxx.var")
                s7 == ZErrColumnStep(s6, dd, 0, 1, "zxy.var")
                s8 == ZErrColumnStep(s7, dd, 1, 0, "zyx.var")
            IN ZErrColumnStep(s8, dd, 1, 1, "zyy.var")

\* Edi._read_mt as it would be if it cleared Z and Tipper before it looks for
\* 'freq'
ReadMtClearing(e, data_lines) ==
    LET dd == DataDict(data_lines)
        st == [Z |-> Z0, Tipper |-> Tipper0, exc |-> ""]
        r == IF "freq" \notin DOMAIN dd THEN [st EXCEPT !.exc = "KeyError"]
             ELSE FillTipper(FillZ([st EXCEPT !.Z = e.Z, !.Tipper = e.Tipper], dd,
                                   e.Data_sect.nfreq), dd, e.Data_sect.nfreq)
    IN [o |-> [e EXCEPT !.Z = r.Z, !.Tipper = r.Tipper], exc |-> r.exc]

\* Edi._read_mt(data_lines) on the Edi object e
ReadMt(e, data_lines) ==
    LET dd == DataDict(data_lines)
        st == [Z |-> e.Z, Tipper |-> e.Tipper, exc |-> ""]
        r == IF "freq" \notin DOMAIN dd THEN [st EXCEPT !.exc = "KeyError"]
             ELSE FillTipper(FillZ(st, dd, e.Data_sect.nfreq), dd, e.Data_sect.nfreq)
    IN [o |-> [e EXCEPT !.Z = r.Z, !.Tipper = r.Tipper], exc |-> r.exc]

\* Edi._read_spectra(data_lines): builds an empty dictionary and returns
ReadSpectra(e, data_lines) == Done(e)

\* fid.readlines()[self.Data_sect.line_num+2:]
DataLines(file, line_num) == SubSeq(file, line_num + 3, Len(file))

\* Edi._read_data
ReadData(e, fsys) ==
    IF IsNone(e.edi_fn) \/ ~IsFile(fsys, e.edi_fn) THEN Fail(e, "MTpyError_EDI")
    ELSE LET lines == DataLines(fsys[e.edi_fn], e.Data_sect.line_num)
         IN IF e.Data_sect.data_type = W("spectra") THEN ReadSpectra(e, lines)
            ELSE IF e.Data_sect.data_type = W("z") THEN ReadMt(e, lines)
            ELSE Done(e)

\* lines 176-184 as they would be with elif in the place of the second and
\* third if
BackfillFirstUnset(e) ==
    IF IsNone(e.Header.lat)
    THEN [e EXCEPT !.Header = SetAttr(@, "lat", e.Define_measurement.reflat)]
    ELSE IF IsNone(e.Header.lon)
    THEN [e EXCEPT !.Header = SetAttr(@, "lon", e.Define_measurement.reflon)]
    ELSE IF IsNone(e.Header.elev)
    THEN [e EXCEPT !.Header = SetAttr(@, "elev", e.Define_measurement.refelev)]
    ELSE e

\* lines 176-184: the position of the header, from the reference location
\* where the header has none
Backfill(e) ==
    LET h1 == IF IsNone(e.Header.lat)
              THEN SetAttr(e.Header, "lat", e.Define_measurement.reflat) ELSE e.Header
        h2 == IF IsNone(h1.lon) THEN SetAttr(h1, "lon", e.Define_measurement.reflon) ELSE h1
        h3 == IF IsNone(h2.elev) THEN SetAttr(h2, "elev", e.Define_measurement.refelev) ELSE h2
    IN [e EXCEPT !.Header = h3]

\* lines 162-166 as they would be without the test of line 165
PathGiven(fn, fsys) == ~IsNone(fn)

\* lines 162-166: the path is there and names a file
PathOk(fn, fsys) == ~IsNone(fn) /\ IsFile(fsys, fn)

\* ------------------------------------------------------------------------
\* Edi._write_data_block
\* ------------------------------------------------------------------------
\* data_key.lower().find('z') >= 0 and find('t') >= 0, on the block labels and
\* on the labels "rhoxy", "zdet" and "tipper", which name no block
ContainsZ(key) == StartsZ(key) \/ key = "zdet"
ContainsT(key) == StartsT(key) \/ key = "zrot" \/ key \in {"zdet", "tipper"}

\* float(self.Header.empty)
EmptyFloat(h) ==
    IF IsFlt(h.empty) THEN Ok(h.empty)
    ELSE IF IsNone(h.empty) THEN Raise("TypeError")
    ELSE PyFloat(h.empty)

\* lines 396-413 as they would be without the tests 'not in [zrot, trot]'
BlockMarkerByLetter(data_key, size) ==
    LET key == Lower(data_key)
        count == <<Bare(W("//")), Bare(IntLit(size))>>
    IN IF ContainsZ(key)
       THEN Ok(Mark(Upper(key), FALSE, <<Arg("ROT", W("ZROT"))>> \o count))
       ELSE IF ContainsT(key)
       THEN Ok(Mark(Upper(key), FALSE, <<Arg("ROT", W("TROT"))>> \o count))
       ELSE IF key = "freq" THEN Ok(Mark(Upper(key), FALSE, count))
       ELSE Raise("MTpyError_EDI")

\* lines 396-413: the marker line of the block
BlockMarker(data_key, size) ==
    LET key == Lower(data_key)
        count == <<Bare(W("//")), Bare(IntLit(size))>>
    IN IF ContainsZ(key) /\ key \notin {"zrot", "trot"}
       THEN Ok(Mark(Upper(key), FALSE, <<Arg("ROT", W("ZROT"))>> \o count))
       ELSE IF ContainsT(key) /\ key \notin {"zrot", "trot"}
       THEN Ok(Mark(Upper(key), FALSE, <<Arg("ROT", W("TROT"))>> \o count))
       ELSE IF key = "freq" THEN Ok(Mark(Upper(key), FALSE, count))
       ELSE IF key \in {"zrot", "trot"} THEN Ok(Mark(Upper(key), FALSE, count))
       ELSE Raise("MTpyError_EDI")

\* lines 416-417: a zero outside ZROT and TROT is replaced by the empty value
ReplacesZero(data_key) == Lower(data_key) \notin {"zrot", "trot"}

\* lines 415-419: the number strings of the block
RECURSIVE NumStrings(_, _, _, _)
NumStrings(h, arr, data_key, i) ==
    IF i > Len(arr) THEN Ok(<<>>)
    ELSE Bind(IF arr[i] = Zero /\ ReplacesZero(data_key) THEN EmptyFloat(h) ELSE Ok(arr[i]),
              LAMBDA d : Bind(NumStrings(h, arr, data_key, i + 1),
                              LAMBDA rest : Ok(<<FormatE(d)>> \o rest)))

\* lines 421-428: a newline after every block_len-th number and after the last
RECURSIVE Rows(_, _)
Rows(toks, block_len) ==
    IF Len(toks) = 0 THEN <<>>
    ELSE IF Len(toks) <= block_len
    THEN <<Data(toks)>> \o (IF Len(toks) = block_len THEN <<Blank>> ELSE <<>>)
    ELSE <<Data(SubSeq(toks, 1, block_len))>> \o Rows(SubSeq(toks, block_len + 1, Len(toks)), block_len)

\* _write_data_block as it would be if the marker held Data_sect.nfreq
WriteDataBlockOfNfreq(e, data_comp_arr, data_key) ==
    IF ~IsArr(data_comp_arr)
    THEN (IF BlockMarker(data_key, 0).ok THEN Raise("AttributeError") ELSE Raise("MTpyError_EDI"))
    ELSE Bind(BlockMarker(data_key, IF "pint" \in DOMAIN e.Data_sect.nfreq
                                    THEN e.Data_sect.nfreq.pint
                                    ELSE Len(data_comp_arr.arr)),
              LAMBDA mk : Bind(NumStrings(e.Header, data_comp_arr.arr, data_key, 1),
                               LAMBDA ns : Ok(<<mk>> \o Rows(ns, e.block_len))))

\* Edi._write_data_block(data_comp_arr, data_key): the lines of the block
WriteDataBlock(e, data_comp_arr, data_key) ==
    IF ~IsArr(data_comp_arr)
    THEN (IF BlockMarker(data_key, 0).ok THEN Raise("AttributeError") ELSE Raise("MTpyError_EDI"))
    ELSE Bind(BlockMarker(data_key, Len(data_comp_arr.arr)),
              LAMBDA mk : Bind(NumStrings(e.Header, data_comp_arr.arr, data_key, 1),
                               LAMBDA ns : Ok(<<mk>> \o Rows(ns, e.block_len))))

\* ------------------------------------------------------------------------
\* The writers of the sections
\* ------------------------------------------------------------------------
\* '{0}'.format(value)
Str(v) ==
    CASE IsNone(v) -> W("None")
      [] "pint" \in DOMAIN v -> IntLit(v.pint)
      [] "pbool" \in DOMAIN v -> W(IF v.pbool THEN "True" ELSE "False")
      [] IsFlt(v) -> StrFloat(v)
      [] "mm" \in DOMAIN v -> Dec(v.mm, 3)
      [] OTHER -> v

\* the value written for one key of the header, lines 767-782
HeaderValue(o, key) ==
    LET value == o[key]
    IN IF key \in {"progdate", "progvers"}
       THEN Ok(IF IsNone(value) THEN W("mtpy") ELSE Str(value))
       ELSE IF key \in {"lat", "lon"} THEN DegreesToDmsString(value)
       ELSE IF key = "elev"
       THEN Ok(IF "mm" \in DOMAIN value THEN Dec(value.mm, 3) ELSE Dec(0, 3))
       ELSE IF key = "filedate" THEN Ok(W("utcnow"))
       ELSE Ok(Str(value))

RECURSIVE HeaderKeyLines(_, _)
HeaderKeyLines(o, i) ==
    IF i > Len(HeaderKeysSorted) THEN Ok(<<>>)
    ELSE Bind(HeaderValue(o, HeaderKeysSorted[i]),
              LAMBDA v : Bind(HeaderKeyLines(o, i + 1),
                              LAMBDA rest : Ok(<<KV(Upper(HeaderKeysSorted[i]), v)>> \o rest)))

\* Header.write_header(header_list = arg): the object as left, the exception,
\* the lines
WriteHeader(o, fsys, arg) ==
    With(IF IsNone(arg) THEN Done(o) ELSE ReadHeader(o, fsys, arg), LAMBDA r1 :
    With(IF r1.exc = "" /\ IsNone(r1.o.header_list) /\ ~IsNone(r1.o.edi_fn)
         THEN GetHeaderList(r1.o, fsys) ELSE r1, LAMBDA r2 :
    With(HeaderKeyLines(r2.o, 1), LAMBDA kl :
       IF r2.exc # "" THEN [o |-> r2.o, exc |-> r2.exc, lines |-> <<>>]
       ELSE IF ~kl.ok THEN [o |-> r2.o, exc |-> kl.exc, lines |-> <<>>]
       ELSE [o |-> r2.o, exc |-> "",
             lines |-> <<Mark("HEAD", FALSE, <<>>), Blank>> \o kl.v \o <<Blank>>])))

\* Information.write_info(info_list = arg)
WriteInfo(o, arg) ==
    With(IF IsNone(arg) THEN o
         ELSE SetAttr(o, "info_list", PList(ValidateInfoList(arg.list))), LAMBDA o1 :
       IF IsNone(o1.info_list) THEN [o |-> o1, exc |-> "TypeError", lines |-> <<>>]
       ELSE [o |-> o1, exc |-> "",
             lines |-> <<Mark("INFO", FALSE, <<>>), Blank>> \o o1.info_list.list])

\* DataSection.write_data_sect(data_sect_list = arg)
WriteDataSect(o, fsys, arg) ==
    With(IF IsNone(arg) THEN Done(o) ELSE ReadDataSect(o, fsys, arg), LAMBDA r1 :
       IF r1.exc # "" THEN [o |-> r1.o, exc |-> r1.exc, lines |-> <<>>]
       ELSE IF r1.o.data_type \notin {W("z"), W("spectra")}
       THEN [o |-> r1.o, exc |-> "UnboundLocalError", lines |-> <<>>]
       ELSE [o |-> r1.o, exc |-> "",
             lines |-> <<Blank, Mark(IF r1.o.data_type = W("z") THEN "MTSECT" ELSE "SPECTRASECT",
                                     TRUE, <<>>)>>
                       \o [i \in 1..Len(DataSectKwList) |->
                             KV(Upper(DataSectKwList[i]), Str(r1.o[DataSectKwList[i]]))]
                       \o <<Blank>>])

\* the digits of NN in 'meas_{0:02.0f}' and 'meas_{0:02}': at least two
RECURSIVE DigitsOf(_)
DigitsOf(n) == IF n < 10 THEN <<n>> ELSE DigitsOf(n \div 10) \o <<n % 10>>
MeasKeyDigits(n) == IF n < 10 THEN <<0, n>> ELSE DigitsOf(n)
\* the order of Python strings on two keys meas_<NN>
RECURSIVE LexLess(_, _)
LexLess(a, b) ==
    IF a = <<>> THEN b # <<>>
    ELSE IF b = <<>> THEN FALSE
    ELSE IF Head(a) # Head(b) THEN Head(a) < Head(b)
    ELSE LexLess(Tail(a), Tail(b))
\* sorted(m_key_list)
\* the keys by the number they hold
SortedMeasKeysByNumber(S) ==
    [i \in 1..Cardinality(S) |-> CHOOSE x \in S : Cardinality({y \in S : y < x}) = i - 1]
RECURSIVE SortedMeasKeys(_)
SortedMeasKeys(S) ==
    IF S = {} THEN <<>>
    ELSE LET m == CHOOSE x \in S : \A y \in S \ {x} : LexLess(MeasKeyDigits(x), MeasKeyDigits(y))
         IN <<m>> \o SortedMeasKeys(S \ {m})

\* '{0:<4.1f}'.format(x) of a float of a channel record
FormatF1(f) ==
    IF f.fk <= 1 THEN Dec(f.fn * Pow10(1 - f.fk), 1)
    ELSE LET p == Pow10(f.fk - 1) IN Dec((2 * f.fn + p) \div (2 * p), 1)
\* '{0:<4.4g}'.format(x): four significant digits, for 1 <= x < 10000 and 0
FormatG4(f) ==
    LET ip == f.fn \div Pow10(f.fk)
        dd == Len(DigitsOf(ip))
        keep == IF f.fk < 4 - dd THEN f.fk ELSE 4 - dd
        p == Pow10(f.fk - keep)
        r == PDec((2 * f.fn + p) \div (2 * p), keep)
    IN IF r.fk = 0 THEN IntLit(r.fn) ELSE Dec(r.fn, r.fk)
\* '{0:<3}'.format(x) of a float: str(x)
FormatS(f) == IF f.fk = 0 THEN Dec(f.fn * 10, 1) ELSE Dec(f.fn, f.fk)

\* ' {0}={1:{2}}'.format(mkey.upper(), getattr(m_obj, mkey), mfmt), line 1175
FormatAttr(v, fmt) ==
    IF fmt = "<4.1f" THEN (IF IsPDec(v) THEN Ok(FormatF1(v)) ELSE Raise("ValueError"))
    ELSE IF fmt = "<4.4g" THEN (IF IsPDec(v) THEN Ok(FormatG4(v)) ELSE Raise("ValueError"))
    ELSE Ok(IF IsPDec(v) THEN FormatS(v) ELSE Str(v))

RECURSIVE MeasArgs(_, _)
MeasArgs(m, i) ==
    IF i > Len(MeasKwList(m.kind)) THEN Ok(<<>>)
    ELSE Bind(FormatAttr(m.at[MeasKwList(m.kind)[i]], MeasFmtList(m.kind)[i]),
              LAMBDA v : Bind(MeasArgs(m, i + 1),
                              LAMBDA rest : Ok(<<Arg(Upper(MeasKwList(m.kind)[i]), v)>> \o rest)))

\* lines 1165-1179: the '>HMEAS' or '>EMEAS' line of one channel
MeasLine(m) ==
    IF "kind" \notin DOMAIN m THEN Raise("AttributeError")
    ELSE With(m.at["chtype"], LAMBDA ct :
         With(IF HasH(ct) THEN "HMEAS" ELSE IF HasE(ct) THEN "EMEAS" ELSE "", LAMBDA head :
            IF ~IsW(ct) \/ head = "" THEN Raise("AttributeError")
            ELSE Bind(MeasArgs(m, 1), LAMBDA a : Ok(Mark(head, FALSE, a)))))

RECURSIVE MeasLines(_, _, _)
MeasLines(meas, keys, i) ==
    IF i > Len(keys) THEN Ok(<<>>)
    ELSE Bind(MeasLine(meas[keys[i]]),
              LAMBDA l : Bind(MeasLines(meas, keys, i + 1), LAMBDA rest : Ok(<<l>> \o rest)))

\* the value written for one key of the section, lines 1147-1152
DefineValue(o, key) ==
    LET value == o[key]
    IN IF key \in {"reflat", "reflon"} THEN DegreesToDmsString(value)
       ELSE IF key = "refelev"
       THEN (IF "mm" \in DOMAIN value THEN Ok(Dec(value.mm, 3)) ELSE Raise("ValueError"))
       ELSE Ok(Str(value))

RECURSIVE DefineKeyLines(_, _)
DefineKeyLines(o, i) ==
    IF i > Len(DefineMeasKeys) THEN Ok(<<>>)
    ELSE Bind(DefineValue(o, DefineMeasKeys[i]),
              LAMBDA v : Bind(DefineKeyLines(o, i + 1),
                              LAMBDA rest : Ok(<<KV(Upper(DefineMeasKeys[i]), v)>> \o rest)))

\* DefineMeasurement.write_define_measurement(measurement_list = arg)
WriteDefineMeasurement(o, fsys, arg) ==
    With(IF IsNone(arg) THEN Done(o) ELSE ReadDefineMeasurement(o, fsys, arg), LAMBDA r1 :
    With(DefineKeyLines(r1.o, 1), LAMBDA kl :
    With(MeasLines(r1.o.meas, SortedMeasKeys(DOMAIN r1.o.meas), 1), LAMBDA ml :
       IF r1.exc # "" THEN [o |-> r1.o, exc |-> r1.exc, lines |-> <<>>]
       ELSE IF ~kl.ok THEN [o |-> r1.o, exc |-> kl.exc, lines |-> <<>>]
       ELSE IF ~ml.ok THEN [o |-> r1.o, exc |-> ml.exc, lines |-> <<>>]
       ELSE [o |-> r1.o, exc |-> "",
             lines |-> <<Mark("DEFINEMEAS", TRUE, <<>>), Blank>> \o kl.v \o <<Blank>> \o ml.v])))

\* ------------------------------------------------------------------------
\* mtpy.utils.filehandling (not among the sources): the unique file name of
\* the specification, section 4.5: a counter is appended while the name is taken
\* ------------------------------------------------------------------------
MakeUniqueFilename(fn, fsys) ==
    IF ~IsFile(fsys, fn) THEN fn
    ELSE LET free(i) == ~IsFile(fsys, Path(fn.stem, fn.sfx \o <<i>>))
             n == CHOOSE i \in 1..(Cardinality(DOMAIN fsys) + 1) :
                    free(i) /\ \A j \in 1..(i - 1) : ~free(j)
         IN Path(fn.stem, fn.sfx \o <<n>>)

\* ------------------------------------------------------------------------
\* Edi
\* ------------------------------------------------------------------------
\* Edi.__init__ before the file is read, lines 101-120
Edi0(fn) ==
    [edi_fn |-> fn, Header |-> Header0(None), Info |-> Information0(None),
     Define_measurement |-> DefineMeasurement0(None), Data_sect |-> DataSection0(None),
     Z |-> Z0, Tipper |-> Tipper0, block_len |-> 6]

\* lines 312-318 as they would be without the test of line 313
NewEdiFnOfStation(e, new_edi_fn, fsys) ==
    MakeUniqueFilename(IF ~IsNone(new_edi_fn) THEN new_edi_fn
                       ELSE Path(Str(e.Header.dataid), <<>>),
                       fsys)

\* lines 312-318 as they would be without line 318
NewEdiFnAsChosen(e, new_edi_fn, fsys) ==
    IF ~IsNone(new_edi_fn) THEN new_edi_fn
    ELSE IF ~IsNone(e.edi_fn) THEN e.edi_fn
    ELSE Path(Str(e.Header.dataid), <<>>)

\* lines 312-318: the name of the file to write
NewEdiFn(e, new_edi_fn, fsys) ==
    MakeUniqueFilename(IF ~IsNone(new_edi_fn) THEN new_edi_fn
                       ELSE IF ~IsNone(e.edi_fn) THEN e.edi_fn
                       ELSE Path(Str(e.Header.dataid), <<>>),
                       fsys)

\* x[:, i, j] of an array of the transfer function, TypeError on None
Component(x, i, j) == IF IsArr(x) THEN Ok(GetColumn(x, i, j)) ELSE Raise("TypeError")
Real(col) == Arr([k \in 1..Len(col) |-> col[k].re])
Imag(col) == Arr([k \in 1..Len(col) |-> col[k].im])

\* lines 330-331
FreqLines(e) ==
    Bind(WriteDataBlock(e, e.Z.freq, "freq"), LAMBDA b : Ok(<<Cmt("FREQUENCIES")>> \o b))
\* lines 334-335
ZrotLines(e) ==
    Bind(WriteDataBlock(e, e.Z.rotation_angle, "zrot"),
         LAMBDA b : Ok(<<Cmt("IMPEDANCE ROTATION ANGLES")>> \o b))

\* lines 341-350 and 363-372: the real, imaginary and variance blocks of one
\* component, labelled by the three labels of labs
ComponentLines(e, x, xerr, i, j, labs) ==
    Bind(Component(x, i, j), LAMBDA c :
    Bind(WriteDataBlock(e, Real(c), labs[1]), LAMBDA re :
    Bind(WriteDataBlock(e, Imag(c), labs[2]), LAMBDA im :
    Bind(Component(xerr, i, j), LAMBDA v :
    Bind(WriteDataBlock(e, Arr(v), labs[3]), LAMBDA var : Ok(re \o im \o var))))))

\* lines 338-350: the loop over ii and jj, n = 2*ii + jj
RECURSIVE ZLoop(_, _)
ZLoop(e, n) ==
    IF n > 3 THEN Ok(<<>>)
    ELSE Bind(ComponentLines(e, e.Z.z, e.Z.zerr, n \div 2, n % 2, ZLabels[n + 1]),
              LAMBDA c : Bind(ZLoop(e, n + 1), LAMBDA rest : Ok(c \o rest)))
ZDataLines(e) == Bind(ZLoop(e, 0), LAMBDA b : Ok(<<Cmt("IMPEDANCES")>> \o b))

\* lines 353-358
TrotLines(e) ==
    Bind(IF IsFlt(e.Tipper.rotation_angle)
         THEN (IF IsArr(e.Tipper.freq)
               THEN Ok(Arr([k \in 1..Len(e.Tipper.freq.arr) |-> e.Tipper.rotation_angle]))
               ELSE Raise("AttributeError"))
         ELSE Ok(e.Tipper.rotation_angle), LAMBDA trot :
    Bind(WriteDataBlock(e, trot, "trot"),
         LAMBDA b : Ok(<<Cmt("TIPPER ROTATION ANGLES")>> \o b)))

\* lines 361-372: the loop over jj
RECURSIVE TLoop(_, _)
TLoop(e, jj) ==
    IF jj > 1 THEN Ok(<<>>)
    ELSE Bind(ComponentLines(e, e.Tipper.tipper, e.Tipper.tippererr, 0, jj, TLabels[jj + 1]),
              LAMBDA c : Bind(TLoop(e, jj + 1), LAMBDA rest : Ok(c \o rest)))
TDataLines(e) == Bind(TLoop(e, 0), LAMBDA b : Ok(<<Cmt("TIPPER")>> \o b))

\* lines 374-382 as they would be with the rotation angles ahead of the
\* frequencies
EdiLinesRotationFirst(l) ==
    l.header_lines \o l.info_lines \o l.define_lines \o l.dsect_lines \o l.zrot_lines
      \o l.freq_lines \o l.z_data_lines \o l.trot_lines \o l.t_data_lines
      \o <<Mark("END", FALSE, <<>>)>>

\* lines 374-382: the lines of the file, in the order written
EdiLines(l) ==
    l.header_lines \o l.info_lines \o l.define_lines \o l.dsect_lines \o l.freq_lines
      \o l.zrot_lines \o l.z_data_lines \o l.trot_lines \o l.t_data_lines
      \o <<Mark("END", FALSE, <<>>)>>

\* Edi._get_station()
GetStation(e) == e.Header.dataid

\* _set_station as it would be without line 484
SetStationHeaderOnly(e, new_station) ==
    LET s == Str(new_station)
    IN [e EXCEPT !.Header = SetAttr(@, "dataid", s)]

\* Edi._set_station(new_station)
SetStationOf(e, new_station) ==
    LET s == Str(new_station)
    IN [e EXCEPT !.Header = SetAttr(@, "dataid", s), !.Data_sect = SetAttr(@, "sectid", s)]

\* ------------------------------------------------------------------------
\* The files the documents are read from
\* ------------------------------------------------------------------------
\* the lines of a header: the position lines named in pos, the empty value
HeadLines(pos, lat, empty) ==
    <<Mark("HEAD", FALSE, <<>>), KV("DATAID", Quoted(W("mt01"))), KV("ACQBY", W("par28ew"))>>
      \o (IF "lat" \in pos THEN <<KV("LAT", lat)>> ELSE <<>>)
      \o (IF "lon" \in pos THEN <<KV("LONG", Dms(1, 139, 47, 5012))>> ELSE <<>>)
      \o (IF "elev" \in pos THEN <<KV("ELEV", IntLit(181))>> ELSE <<>>)
      \o <<KV("EMPTY", empty), Blank>>
InfoLines == <<Mark("INFO", FALSE, <<>>), Txt("SURVEY NOTES", 12), Blank>>
\* the lines of a measurement section: the reference lines named in ref
DefineLines(ref, maxchan) ==
    <<Mark("DEFINEMEAS", TRUE, <<>>)>>
      \o (IF maxchan THEN <<KV("MAXCHAN", IntLit(7))>> ELSE <<>>)
      \o (IF "lat" \in ref THEN <<KV("REFLAT", Dms(-1, 30, 17, 2554))>> ELSE <<>>)
      \o (IF "lon" \in ref THEN <<KV("REFLONG", Dms(1, 139, 47, 5087))>> ELSE <<>>)
      \o (IF "elev" \in ref THEN <<KV("REFELEV", Dec(1755, 1))>> ELSE <<>>)
      \o <<Blank,
           Mark("HMEAS", FALSE, <<Arg("ID", Dec(1001001, 3)), Arg("CHTYPE", W("HX")),
                                  Arg("X", IntLit(0)), Arg("Y", IntLit(0)),
                                  Arg("AZM", IntLit(0)), Arg("ACQCHAN", W("HX"))>>),
           Mark("EMEAS", FALSE, <<Arg("ID", Dec(1004001, 3)), Arg("CHTYPE", W("EX")),
                                  Arg("X", IntLit(0)), Arg("Y", IntLit(0)),
                                  Arg("X2", Dec(505, 1)), Arg("Y2", IntLit(0)),
                                  Arg("ACQCHAN", W("EX"))>>),
           Blank>>
SectLines(name, nfreq) ==
    <<Mark(name, TRUE, <<>>), KV("SECTID", Quoted(W("mt01"))), KV("NFREQ", IntLit(nfreq)), Blank>>

\* one data block: the marker line and the numbers on one line
Block(name, toks) ==
    <<Mark(name, FALSE, <<Bare(W("//")), Bare(IntLit(Len(toks)))>>), Data(toks)>>
\* numerals of the blocks: 1.0e32; 1.0000001e32, which ' 15.6e' writes as
\* 1.000000e+32; 0.0; a component that is no number
T1e32 == Numeral(10, 2, 32)
TNear1e32 == Numeral(10000001, 8, 32)
T1e30 == Numeral(10, 2, 30)
TZero == Numeral(0, 2, 0)
TStars == W("****")
TNum(n) == Numeral(1234000 + n, 7, 1)

\* the blocks of an impedance file: n values in every block but those the
\* arguments replace: over maps a label to its tokens, drop is left out
Values(n, lab) == [k \in 1..n |-> TNum(100 * k + lab)]
AllLabels == <<"FREQ", "ZROT", "ZXXR", "ZXXI", "ZXX.VAR", "ZXYR", "ZXYI", "ZXY.VAR",
               "ZYXR", "ZYXI", "ZYX.VAR", "ZYYR", "ZYYI", "ZYY.VAR", "TROT",
               "TXR.EXP", "TXI.EXP", "TXVAR.EXP", "TYR.EXP", "TYI.EXP", "TYVAR.EXP">>
RECURSIVE Blocks(_, _, _, _)
Blocks(n, over, drop, i) ==
    IF i > Len(AllLabels) THEN <<>>
    ELSE LET lab == AllLabels[i]
         IN (IF lab \in drop THEN <<>>
             ELSE Block(lab, IF lab \in DOMAIN over THEN over[lab] ELSE Values(n, i)))
            \o Blocks(n, over, drop, i + 1)
TipperLabels == {"TROT", "TXR.EXP", "TXI.EXP", "TXVAR.EXP", "TYR.EXP", "TYI.EXP", "TYVAR.EXP"}

EdiFile(headl, definel, sectl, blocks) ==
    headl \o InfoLines \o definel \o sectl \o blocks \o <<Mark("END", FALSE, <<>>)>>

AllPos == {"lat", "lon", "elev"}
GoodLat == Dms(-1, 30, 17, 2500)
GoodHead == HeadLines(AllPos, GoodLat, T1e32)
GoodDefine == DefineLines(AllPos, TRUE)
NFreq == 2
GoodSect == SectLines("MTSECT", NFreq)
NoOver == [x \in {} |-> <<>>]
\* the NFreq values of a block that starts with the tokens toks
Starting(toks) == [k \in 1..NFreq |-> IF k <= Len(toks) THEN toks[k] ELSE TNum(100 * k)]

GoodBlocks == Blocks(NFreq, ("ZYYR" :> Starting(<<TZero, TNum(7)>>)), {}, 1)
InputFiles ==
    {EdiFile(HeadLines(pos, GoodLat, T1e32), GoodDefine, GoodSect, GoodBlocks) : pos \in SUBSET AllPos}
    \cup {EdiFile(HeadLines({}, GoodLat, T1e32), DefineLines({"lon"}, TRUE), GoodSect, GoodBlocks),
          EdiFile(HeadLines(AllPos, BadDms("12:AB:10"), T1e32), GoodDefine, GoodSect, GoodBlocks),
          EdiFile(GoodHead, DefineLines(AllPos, FALSE), GoodSect, GoodBlocks),
          EdiFile(GoodHead, GoodDefine, SectLines("SPECTRASECT", NFreq), <<>>),
          EdiFile(GoodHead, GoodDefine, GoodSect, Blocks(NFreq, NoOver, TipperLabels, 1)),
          EdiFile(GoodHead, GoodDefine, GoodSect, Blocks(NFreq, NoOver, {"TXR.EXP"}, 1)),
          EdiFile(GoodHead, GoodDefine, GoodSect, Blocks(NFreq, NoOver, {"TXI.EXP"}, 1)),
          EdiFile(GoodHead, GoodDefine, GoodSect, Blocks(NFreq, NoOver, {"FREQ"}, 1)),
          EdiFile(GoodHead, GoodDefine, GoodSect,
                  Blocks(NFreq, ("FREQ" :> Values(NFreq + 1, 0)), {}, 1)),
          EdiFile(GoodHead, GoodDefine, GoodSect,
                  Blocks(NFreq, ("ZXXR" :> Values(1, 0)), {}, 1)),
          EdiFile(GoodHead, GoodDefine, GoodSect,
                  Blocks(NFreq, ("ZXYI" :> Values(NFreq + 1, 0)), {}, 1)),
          EdiFile(GoodHead, GoodDefine, GoodSect,
                  Blocks(NFreq, ("ZXXR" :> Starting(<<T1e32, TStars>>))
                           @@ ("ZXXI" :> Starting(<<TZero, T1e30>>)), {}, 1)),
          EdiFile(HeadLines(AllPos, GoodLat, T1e30), GoodDefine, GoodSect,
                  Blocks(NFreq, ("ZXXR" :> Starting(<<TNear1e32, TZero>>))
                           @@ ("ZXXI" :> Starting(<<T1e30, T1e32>>)),
                         {}, 1))}

\* the path of the file the model starts with, a path that names no file, and
\* a path to write to
InPath == Path(W("mt01"), <<>>)
NoPath == Path(W("nofile"), <<>>)
OutPath == Path(W("out"), <<>>)

\* ------------------------------------------------------------------------
\* The state machine
\* ------------------------------------------------------------------------
\* the calls a run makes
MaxCalls == 4
\* the values given to the station property: the name of the station of the
\* file the run starts with, and a number
Stations == {W("mt01"), PInt(5)}

VARIABLES
    fs,     \* the file system: a function from the paths of the files to their lines
    edi,    \* the Edi object
    pc,     \* the statement the running method is at, "idle" between calls
    ret,    \* where read_edi_file returns to: "idle", or "w_header" inside write_edi_file
    op,     \* the method called last and how it ended
    rd,     \* the argument edi_fn of the running read_edi_file
    w,      \* the local variables of the running write_edi_file
    doc,    \* history: the file this object was read from by its last operation, and
            \* whether the object was made for that read
    made,   \* history: for every file written, the file its document had been read from
    calls   \* the number of calls made

vars == <<fs, edi, pc, ret, op, rd, w, doc, made, calls>>

W0 == [new_edi_fn |-> None, built |-> {}, header_lines |-> <<>>, info_lines |-> <<>>,
       define_lines |-> <<>>, dsect_lines |-> <<>>, freq_lines |-> <<>>, zrot_lines |-> <<>>,
       z_data_lines |-> <<>>, trot_lines |-> <<>>, t_data_lines |-> <<>>]

ReadSteps == {"r_check", "r_header", "r_info", "r_define", "r_dsect", "r_data", "r_backfill"}
AssemblySteps == {"w_header", "w_info", "w_define", "w_dsect", "w_freq", "w_zrot", "w_z",
                  "w_trot", "w_t"}
WriteSteps == {"w_name", "w_dataid"} \cup AssemblySteps \cup {"w_open"}

Init ==
    /\ fs \in {(InPath :> f) : f \in InputFiles}
    /\ edi = Edi0(None)
    /\ pc = "idle"
    /\ ret = "idle"
    /\ op = [name |-> "Edi", status |-> "returned"]
    /\ rd = None
    /\ w = W0
    /\ doc = [from |-> None, new |-> TRUE]
    /\ made = <<>>
    /\ calls = 0

\* an exception leaves the running method and its caller
Raised(e) ==
    /\ pc' = "idle"
    /\ ret' = "idle"
    /\ op' = [op EXCEPT !.status = e]
    /\ w' = W0
    /\ doc' = [from |-> None, new |-> FALSE]
    /\ UNCHANGED <<fs, rd, made, calls>>

Paths == {None, NoPath} \cup DOMAIN fs

\* Edi(edi_fn = fn), lines 99-123
CallNew ==
    /\ pc = "idle" /\ calls < MaxCalls
    /\ \E fn \in Paths :
         /\ edi' = Edi0(fn)
         /\ IF IsNone(fn)
            THEN pc' = "idle" /\ op' = [name |-> "Edi", status |-> "returned"]
            ELSE pc' = "r_check" /\ op' = [name |-> "Edi", status |-> "running"]
    /\ rd' = None
    /\ ret' = "idle"
    /\ doc' = [from |-> None, new |-> TRUE]
    /\ calls' = calls + 1
    /\ UNCHANGED <<fs, w, made>>

\* there is an object to call: the constructor called last has not raised
Constructed == ~(op.name = "Edi" /\ op.status # "returned")

\* edi.read_edi_file(edi_fn = fn)
CallRead ==
    /\ pc = "idle" /\ calls < MaxCalls /\ Constructed
    /\ \E fn \in Paths : rd' = fn
    /\ pc' = "r_check"
    /\ ret' = "idle"
    /\ op' = [name |-> "read_edi_file", status |-> "running"]
    /\ doc' = [from |-> None, new |-> doc.new /\ IsNone(doc.from)]
    /\ calls' = calls + 1
    /\ UNCHANGED <<fs, edi, w, made>>

\* edi.write_edi_file(new_edi_fn = fn)
CallWrite ==
    /\ pc = "idle" /\ calls < MaxCalls /\ Constructed
    /\ \E fn \in {None, OutPath} : w' = [W0 EXCEPT !.new_edi_fn = fn]
    /\ pc' = "w_name"
    /\ ret' = "idle"
    /\ op' = [name |-> "write_edi_file", status |-> "running"]
    /\ calls' = calls + 1
    /\ UNCHANGED <<fs, edi, rd, doc, made>>

\* edi.station = s
SetStation ==
    /\ pc = "idle" /\ calls < MaxCalls /\ Constructed
    /\ \E s \in Stations :
         /\ edi' = SetStationOf(edi, s)
         /\ op' = [name |-> "station", status |-> "returned", arg |-> s]
    /\ doc' = [from |-> None, new |-> FALSE]
    /\ calls' = calls + 1
    /\ UNCHANGED <<fs, pc, ret, rd, w, made>>

\* lines 159-166
RCheck ==
    /\ pc = "r_check"
    /\ LET e1 == IF IsNone(rd) THEN edi ELSE [edi EXCEPT !.edi_fn = rd]
       IN /\ edi' = e1
          /\ IF PathOk(e1.edi_fn, fs)
             THEN pc' = "r_header" /\ UNCHANGED <<fs, ret, op, rd, w, doc, made, calls>>
             ELSE Raised("MTpyError_EDI")

\* one of the lines 169-172: the section object is built and then assigned
Construct(r, field, next) ==
    IF r.exc = ""
    THEN /\ edi' = [edi EXCEPT ![field] = r.o]
         /\ pc' = next
         /\ UNCHANGED <<fs, ret, op, rd, w, doc, made, calls>>
    ELSE edi' = edi /\ Raised(r.exc)

RHeader == pc = "r_header" /\ Construct(NewHeader(edi.edi_fn, fs), "Header", "r_info")
RInfo == pc = "r_info" /\ Construct(NewInformation(edi.edi_fn, fs), "Info", "r_define")
RDefine ==
    pc = "r_define" /\ Construct(NewDefineMeasurement(edi.edi_fn, fs), "Define_measurement", "r_dsect")
RDsect == pc = "r_dsect" /\ Construct(NewDataSection(edi.edi_fn, fs), "Data_sect", "r_data")

\* line 174
RData ==
    /\ pc = "r_data"
    /\ LET r == ReadData(edi, fs)
       IN /\ edi' = r.o
          /\ IF r.exc = ""
             THEN pc' = "r_backfill" /\ UNCHANGED <<fs, ret, op, rd, w, doc, made, calls>>
             ELSE Raised(r.exc)

\* lines 176-186
RBackfill ==
    /\ pc = "r_backfill"
    /\ edi' = Backfill(edi)
    /\ pc' = ret
    /\ ret' = "idle"
    /\ op' = IF ret = "idle" THEN [op EXCEPT !.status = "returned"] ELSE op
    /\ doc' = [from |-> edi.edi_fn, new |-> doc.new]
    /\ UNCHANGED <<fs, rd, w, made, calls>>

\* lines 312-318
WName ==
    /\ pc = "w_name"
    /\ w' = [w EXCEPT !.new_edi_fn = NewEdiFn(edi, w.new_edi_fn, fs)]
    /\ pc' = "w_dataid"
    /\ UNCHANGED <<fs, edi, ret, op, rd, doc, made, calls>>

\* lines 320-321 as they would be without the call of read_edi_file
WDataidNoRead ==
    /\ pc = "w_dataid"
    /\ pc' = "w_header"
    /\ UNCHANGED <<fs, edi, ret, op, rd, w, doc, made, calls>>

\* lines 320-321: a document without a station is read from its file first
WDataid ==
    /\ pc = "w_dataid"
    /\ IF IsNone(edi.Header.dataid)
       THEN pc' = "r_check" /\ ret' = "w_header" /\ rd' = None
       ELSE pc' = "w_header" /\ UNCHANGED <<ret, rd>>
    /\ UNCHANGED <<fs, edi, op, w, doc, made, calls>>

\* lines 324-372 as they would be if the file were opened first and every
\* part written to it as soon as it is assembled
AssembleWriting(r, part, next) ==
    IF r.exc = ""
    THEN /\ w' = [w EXCEPT ![part] = r.lines, !.built = @ \cup {part}]
         /\ pc' = next
         /\ fs' = SetAttr(fs, w.new_edi_fn,
                          (IF IsFile(fs, w.new_edi_fn) THEN fs[w.new_edi_fn] ELSE <<>>) \o r.lines)
         /\ UNCHANGED <<ret, op, rd, doc, made, calls>>
    ELSE Raised(r.exc)

\* one of the lines 324-372: r holds the exception raised, or the lines
Assemble(r, part, next) ==
    IF r.exc = ""
    THEN /\ w' = [w EXCEPT ![part] = r.lines, !.built = @ \cup {part}]
         /\ pc' = next
         /\ UNCHANGED <<fs, ret, op, rd, doc, made, calls>>
    ELSE Raised(r.exc)
Lines(b) == IF b.ok THEN [exc |-> "", lines |-> b.v] ELSE [exc |-> b.exc, lines |-> <<>>]

WHeader ==
    /\ pc = "w_header"
    /\ LET r == WriteHeader(edi.Header, fs, None)
       IN edi' = [edi EXCEPT !.Header = r.o] /\ Assemble(r, "header_lines", "w_info")
WInfo ==
    /\ pc = "w_info"
    /\ LET r == WriteInfo(edi.Info, None)
       IN edi' = [edi EXCEPT !.Info = r.o] /\ Assemble(r, "info_lines", "w_define")
WDefine ==
    /\ pc = "w_define"
    /\ LET r == WriteDefineMeasurement(edi.Define_measurement, fs, None)
       IN edi' = [edi EXCEPT !.Define_measurement = r.o] /\ Assemble(r, "define_lines", "w_dsect")
WDsect ==
    /\ pc = "w_dsect"
    /\ LET r == WriteDataSect(edi.Data_sect, fs, None)
       IN edi' = [edi EXCEPT !.Data_sect = r.o] /\ Assemble(r, "dsect_lines", "w_freq")
WFreq == pc = "w_freq" /\ edi' = edi /\ Assemble(Lines(FreqLines(edi)), "freq_lines", "w_zrot")
WZrot == pc = "w_zrot" /\ edi' = edi /\ Assemble(Lines(ZrotLines(edi)), "zrot_lines", "w_z")
WZ == pc = "w_z" /\ edi' = edi /\ Assemble(Lines(ZDataLines(edi)), "z_data_lines", "w_trot")
WTrot == pc = "w_trot" /\ edi' = edi /\ Assemble(Lines(TrotLines(edi)), "trot_lines", "w_t")
WT == pc = "w_t" /\ edi' = edi /\ Assemble(Lines(TDataLines(edi)), "t_data_lines", "w_open")

\* lines 384-388: the file is opened, written and closed
WOpen ==
    /\ pc = "w_open"
    /\ fs' = SetAttr(fs, w.new_edi_fn, EdiLines(w))
    /\ made' = SetAttr(made, w.new_edi_fn, doc)
    /\ pc' = "idle"
    /\ op' = [op EXCEPT !.status = "returned"]
    /\ w' = W0
    /\ UNCHANGED <<edi, ret, rd, doc, calls>>

Next ==
    \/ CallNew \/ CallRead \/ CallWrite \/ SetStation
    \/ RCheck \/ RHeader \/ RInfo \/ RDefine \/ RDsect \/ RData \/ RBackfill
    \/ WName \/ WDataid \/ WHeader \/ WInfo \/ WDefine \/ WDsect
    \/ WFreq \/ WZrot \/ WZ \/ WTrot \/ WT \/ WOpen

Spec == Init /\ [][Next]_vars

\* ------------------------------------------------------------------------
\* _write_data_block called by itself
\* ------------------------------------------------------------------------
\* the longest array given to _write_data_block, and the values of _block_len:
\* 1..MaxBlockLen and the 6 of line 120
MaxElems == 7
MaxBlockLen == 3
BlockLens == 1..MaxBlockLen \cup {6}
\* the values of Header.empty: the float of the constructor, and the string
\* read_header leaves for EMPTY=1.0e+30
Empties == {Flt(10000000, 32), T1e30}
\* the arrays: n numbers, the z-th of them 0.0 (none when z = 0)
BlockArrays ==
    {[k \in 1..n |-> IF k = z THEN Zero ELSE Flt(10000000 + 10 * k, 0)] :
        n \in 0..MaxElems, z \in 0..MaxElems}
\* the labels: those of the blocks, and three that name no block
BlockKeys ==
    {"freq", "zrot", "trot", "rhoxy", "zdet", "tipper"}
      \cup {ZLabels[a][b] : a \in 1..4, b \in 1..3} \cup {TLabels[a][b] : a \in 1..2, b \in 1..3}

\* Edi() with _block_len and Header.empty set
InitBlock ==
    /\ fs = <<>>
    /\ \E b \in BlockLens, v \in Empties :
         edi = [Edi0(None) EXCEPT !.block_len = b, !.Header = SetAttr(@, "empty", v)]
    /\ pc = "idle"
    /\ ret = "idle"
    /\ op = [name |-> "Edi", status |-> "returned"]
    /\ rd = None
    /\ w = W0
    /\ doc = [from |-> None, new |-> TRUE]
    /\ made = <<>>
    /\ calls = 0

\* edi._write_data_block(data_comp_arr, data_key), lines 390-428: the method
\* runs to its return statement or to the raise of line 413; w holds its
\* arguments, the list block_lines (nothing, where it is not yet bound) and
\* the exception raised
CallWriteDataBlock ==
    /\ pc = "idle"
    /\ \E data_key \in BlockKeys, arr \in BlockArrays :
         LET r == WriteDataBlock(edi, Arr(arr), data_key)
         IN /\ pc' = IF r.ok THEN "b_return" ELSE "b_raise"
            /\ w' = [data_comp_arr |-> arr, data_key |-> data_key,
                     block_lines |-> IF r.ok THEN r.v ELSE <<>>,
                     exc |-> IF r.ok THEN "" ELSE r.exc]
    /\ op' = [name |-> "_write_data_block", status |-> "running"]
    /\ UNCHANGED <<fs, edi, ret, rd, doc, made, calls>>

\* line 430 and line 413: the method is left, and its local variables with it
LeaveWriteDataBlock ==
    /\ pc \in {"b_return", "b_raise"}
    /\ pc' = "idle"
    /\ op' = [op EXCEPT !.status = IF pc = "b_return" THEN "returned" ELSE w.exc]
    /\ w' = W0
    /\ UNCHANGED <<fs, edi, ret, rd, doc, made, calls>>

NextBlock == CallWriteDataBlock \/ LeaveWriteDataBlock

SpecBlock == InitBlock /\ [][NextBlock]_vars

\* ------------------------------------------------------------------------
\* The section objects of Edi() called by themselves
\* ------------------------------------------------------------------------
\* the dictionary of a channel line, as get_measurement_lists builds it
ChannelDict(kind, ct) ==
    ("chtype" :> W(ct)) @@ ("x" :> IntLit(0)) @@ ("y" :> IntLit(0)) @@ ("acqchan" :> W(ct))
      @@ (IF kind = "h" THEN ("azm" :> IntLit(0)) ELSE ("x2" :> Dec(505, 1)) @@ ("y2" :> IntLit(0)))
\* a channel record with the id n, and one without an id
ChannelRec(kind, ct, n) == [dict |-> ("id" :> IntLit(n)) @@ ChannelDict(kind, ct)]
ChannelRecNoId(kind, ct) == [dict |-> ChannelDict(kind, ct)]
\* the lines of the reference location
RefLines == <<KV("REFLAT", Dms(-1, 30, 17, 2554)), KV("REFLONG", Dms(1, 139, 47, 5087)),
              KV("REFELEV", Dec(1755, 1))>>

\* the lists given to the readers; None is the call without a list; a list of
\* each reader holds a line with a second '=', as in ACQBY=par=28ew; the
\* measurement lists also hold the key LAT, a MAXCHAN that is no integer, an id
\* and an azimuth that are no numbers
HeaderLists == {None, PList(<<KV("DATAID", Quoted(W("mt05"))), KV2("ACQBY", W("par"), W("28ew")),
                              KV("STDVERS", W("SEG 1.0"))>>)}
InfoLists == {None, PList(<<Txt("SURVEY NOTES", 12)>>)}
DataSectLists == {None, PList(<<KV("NFREQ", IntLit(NFreq)), KV("SECTID", Quoted(W("mt05"))),
                                KV2("HZ", W("ch"), W("3"))>>)}
MeasurementLists ==
    {None,
     PList(RefLines \o <<ChannelRec("h", "HX", 11), ChannelRec("e", "EX", 100),
                         ChannelRec("h", "HY", 9)>>),
     PList(<<ChannelRec("h", "HY", 9), ChannelRec("h", "HX", 11), ChannelRec("e", "EX", 100)>>),
     PList(<<ChannelRec("e", "EY", 5)>>),
     PList(<<ChannelRecNoId("h", "HZ"), ChannelRecNoId("e", "EY")>>),
     PList(RefLines \o <<ChannelRecNoId("h", "HX")>>),
     PList(<<KV2("REFTYPE", W("cart"), W("esian")), KV("LAT", Dec(455, 1))>>),
     PList(<<KV("MAXCHAN", Dec(70, 1)), ChannelRec("e", "EY", 5)>>),
     PList(<<[dict |-> ("id" :> W("A1")) @@ ChannelDict("h", "HX")], ChannelRec("e", "EY", 5)>>),
     PList(<<[dict |-> ("id" :> IntLit(3)) @@ ("azm" :> W("north")) @@ ChannelDict("h", "HZ")]>>)}

\* Edi(), lines 99-120: no file, the four section objects as constructed
InitSect ==
    /\ fs = <<>>
    /\ edi = Edi0(None)
    /\ pc = "idle"
    /\ ret = "idle"
    /\ op = [name |-> "Edi", status |-> "returned"]
    /\ rd = None
    /\ w = W0
    /\ doc = [from |-> None, new |-> TRUE]
    /\ made = <<>>
    /\ calls = 0

\* the method name called on a section with the argument arg has left the
\* section and the exception of r
SectionCalled(name, arg, field, r) ==
    /\ edi' = [edi EXCEPT ![field] = r.o]
    /\ op' = [name |-> name, status |-> IF r.exc = "" THEN "returned" ELSE r.exc, arg |-> arg]

\* edi.Header.read_header(header_list = arg)
CallReadHeader ==
    /\ pc = "idle"
    /\ \E arg \in HeaderLists :
         SectionCalled("read_header", arg, "Header", ReadHeader(edi.Header, fs, arg))
    /\ w' = W0
    /\ UNCHANGED <<fs, pc, ret, rd, doc, made, calls>>

\* edi.Info.read_info(info_list = arg)
CallReadInfo ==
    /\ pc = "idle"
    /\ \E arg \in InfoLists :
         SectionCalled("read_info", arg, "Info", ReadInfo(edi.Info, fs, arg))
    /\ w' = W0
    /\ UNCHANGED <<fs, pc, ret, rd, doc, made, calls>>

\* edi.Define_measurement.read_define_measurement(measurement_list = arg)
CallReadDefineMeasurement ==
    /\ pc = "idle"
    /\ \E arg \in MeasurementLists :
         SectionCalled("read_define_measurement", arg, "Define_measurement",
                       ReadDefineMeasurement(edi.Define_measurement, fs, arg))
    /\ w' = W0
    /\ UNCHANGED <<fs, pc, ret, rd, doc, made, calls>>

\* edi.Data_sect.read_data_sect(data_sect_list = arg)
CallReadDataSect ==
    /\ pc = "idle"
    /\ \E arg \in DataSectLists :
         SectionCalled("read_data_sect", arg, "Data_sect", ReadDataSect(edi.Data_sect, fs, arg))
    /\ w' = W0
    /\ UNCHANGED <<fs, pc, ret, rd, doc, made, calls>>

\* edi.Define_measurement.write_define_measurement(); w holds the list returned
CallWriteDefineMeasurement ==
    /\ pc = "idle"
    /\ LET r == WriteDefineMeasurement(edi.Define_measurement, fs, None)
       IN /\ SectionCalled("write_define_measurement", None, "Define_measurement", r)
          /\ w' = [measurement_lines |-> r.lines]
    /\ UNCHANGED <<fs, pc, ret, rd, doc, made, calls>>

NextSect ==
    \/ CallReadHeader \/ CallReadInfo \/ CallReadDefineMeasurement \/ CallReadDataSect
    \/ CallWriteDefineMeasurement

SpecSect == InitSect /\ [][NextSect]_vars

\* ------------------------------------------------------------------------
\* _read_mt called by itself, line by line
\* ------------------------------------------------------------------------
\* the longest list of lines given to _read_mt
MaxLines == 3
\* the lines: the markers of two blocks, of a label that begins with 't' and
\* of a label that opens nothing, a marker and a line with '!', lines of
\* numbers
BlockMark(name) == Mark(name, FALSE, <<Bare(W("//")), Bare(IntLit(NFreq))>>)
MtLines ==
    {BlockMark("FREQ"), BlockMark("ZXXR"), BlockMark("TIPPER"), BlockMark("RHOXY"),
     [BlockMark("ZXXR") EXCEPT !.bang = TRUE], Cmt("FREQUENCIES"),
     Data(<<TNum(1)>>), Data(<<TNum(2), TStars>>)}
MtLineLists == UNION {[1..n -> MtLines] : n \in 0..MaxLines}

\* Edi()._read_mt(data_lines) at line 211: nothing accumulated, the loop at
\* the first line
InitMt ==
    /\ fs = <<>>
    /\ edi = Edi0(None)
    /\ pc = "m_loop"
    /\ ret = "idle"
    /\ op = [name |-> "_read_mt", status |-> "running"]
    /\ rd = None
    /\ \E ls \in MtLineLists :
         w = [data_lines |-> ls, i |-> 1,
              scan |-> [data_dict |-> <<>>, data_find |-> FALSE, key |-> ""]]
    /\ doc = [from |-> None, new |-> TRUE]
    /\ made = <<>>
    /\ calls = 0

\* lines 213-236: one pass of the loop
MtLoop ==
    /\ pc = "m_loop"
    /\ w.i <= Len(w.data_lines)
    /\ w' = [w EXCEPT !.i = @ + 1, !.scan = BlockScanStep(@, w.data_lines[w.i])]
    /\ UNCHANGED <<fs, edi, pc, ret, op, rd, doc, made, calls>>

\* lines 238-278: the arrays are filled from the dictionary, and the method
\* is left
MtFill ==
    /\ pc = "m_loop"
    /\ w.i > Len(w.data_lines)
    /\ LET r == ReadMt(edi, w.data_lines)
       IN /\ edi' = r.o
          /\ op' = [op EXCEPT !.status = IF r.exc = "" THEN "returned" ELSE r.exc]
    /\ pc' = "idle"
    /\ w' = W0
    /\ UNCHANGED <<fs, ret, rd, doc, made, calls>>

NextMt == MtLoop \/ MtFill

SpecMt == InitMt /\ [][NextMt]_vars

\* ------------------------------------------------------------------------
\* a second file beside the first, files whose sections are out of place,
\* and the elevation set on the document
\* ------------------------------------------------------------------------
PairPath == Path(W("mt02"), <<>>)
GoodFile == EdiFile(GoodHead, GoodDefine, GoodSect, GoodBlocks)
\* no '>FREQ' block, and the position in the measurement section only
NoFreqFile ==
    EdiFile(HeadLines({}, GoodLat, T1e32), GoodDefine, GoodSect, Blocks(NFreq, NoOver, {"FREQ"}, 1))
\* no measurement section: '>=MTSECT' is the first line that starts with '>='
SectFirstFile == EdiFile(GoodHead, <<>>, GoodSect, GoodBlocks)
\* '>=MTSECT' is the third line that starts with '>='
SectThirdFile ==
    EdiFile(GoodHead, GoodDefine \o <<Mark("XTRA", TRUE, <<>>), Blank>>, GoodSect, GoodBlocks)
\* no DATAID line in the header
NoDataidFile == SelectSeq(GoodFile, LAMBDA l : ~(l.k = "kv" /\ l.key = "DATAID"))

FileSystems ==
    {(InPath :> GoodFile) @@ (PairPath :> NoFreqFile),
     (InPath :> SectFirstFile),
     (InPath :> SectThirdFile),
     (InPath :> NoDataidFile)}

InitFiles ==
    /\ fs \in FileSystems
    /\ edi = Edi0(None)
    /\ pc = "idle"
    /\ ret = "idle"
    /\ op = [name |-> "Edi", status |-> "returned"]
    /\ rd = None
    /\ w = W0
    /\ doc = [from |-> None, new |-> TRUE]
    /\ made = <<>>
    /\ calls = 0

\* the elevations given to the setter
Elevations == {IntLit(100)}
\* lines 470-471
SetElevOf(e, v) == [e EXCEPT !.Header = SetAttr(@, "elev", AssertPositionFormat("elev", v).v)]

\* edi.elev = v
SetElev ==
    /\ pc = "idle" /\ calls < MaxCalls /\ Constructed
    /\ \E v \in Elevations :
         /\ edi' = SetElevOf(edi, v)
         /\ op' = [name |-> "elev", status |-> "returned", arg |-> v]
    /\ doc' = [from |-> None, new |-> FALSE]
    /\ calls' = calls + 1
    /\ UNCHANGED <<fs, pc, ret, rd, w, made>>

NextFiles == Next \/ SetElev

SpecFiles == InitFiles /\ [][NextFiles]_vars

\* ------------------------------------------------------------------------
\* Properties
\* ------------------------------------------------------------------------
\* Edi(edi_fn) or read_edi_file has read a file and returned
ReadReturned ==
    pc = "idle" /\ op.name \in {"Edi", "read_edi_file"} /\ op.status = "returned"
      /\ ~IsNone(edi.edi_fn)
\* the lines of file that are KEY=VALUE with one of the keys
KeyLines(file, keys) == {i \in DOMAIN file : file[i].k = "kv" /\ file[i].key \in keys}
\* file has a '>' line of that name
HasBlock(file, name) == \E i \in DOMAIN file : file[i].k = "mark" /\ file[i].name = name

\* the '>' lines but those of the channels, and the comment lines, of a file
IsTagged(l) == (l.k = "mark" /\ l.name \notin {"HMEAS", "EMEAS"}) \/ l.k = "cmt"
BlockTag(l) == IF l.k = "mark" THEN l.name ELSE l.s
Tags(file) ==
    With(SelectSeq(file, IsTagged), LAMBDA t : [i \in 1..Len(t) |-> BlockTag(t[i])])
WrittenOrder(sect) ==
    <<"HEAD", "INFO", "DEFINEMEAS", sect, "FREQUENCIES", "FREQ",
      "IMPEDANCE ROTATION ANGLES", "ZROT", "IMPEDANCES",
      "ZXXR", "ZXXI", "ZXX.VAR", "ZXYR", "ZXYI", "ZXY.VAR",
      "ZYXR", "ZYXI", "ZYX.VAR", "ZYYR", "ZYYI", "ZYY.VAR",
      "TIPPER ROTATION ANGLES", "TROT", "TIPPER",
      "TXR.EXP", "TXI.EXP", "TXVAR.EXP", "TYR.EXP", "TYI.EXP", "TYVAR.EXP", "END">>

\* C1: every file write_edi_file has written holds the blocks in the order
\* header, information, measurements, data section, frequencies, impedance
\* rotation, impedances zxx zxy zyx zyy, tipper rotation, tipper tx ty, each
\* component as real, imaginary, variance, and '>END' is its last line
C1_BlockOrder ==
    \A p \in DOMAIN made :
        /\ \E sect \in {"MTSECT", "SPECTRASECT"} : Tags(fs[p]) = WrittenOrder(sect)
        /\ fs[p][Len(fs[p])] = Mark("END", FALSE, <<>>)
\* write_edi_file has returned and its file is there
C1_Written ==
    pc = "idle" /\ op.name = "write_edi_file" /\ op.status = "returned" /\ DOMAIN made # {}

AllParts == {"header_lines", "info_lines", "define_lines", "dsect_lines", "freq_lines",
             "zrot_lines", "z_data_lines", "trot_lines", "t_data_lines"}
\* C2: the file system changes only in the step that opens the file, which is
\* taken when all nine parts are assembled; the step in which write_edi_file
\* raises leaves every file as it was and creates none
C2_WriteAfterAssembly ==
    [][/\ fs' # fs => pc = "w_open" /\ w.built = AllParts /\ op'.status = "returned"
       /\ op'.name = "write_edi_file" /\ op'.status \notin {"running", "returned"} => fs' = fs]_vars
\* the assembly of a part has raised: the first call of the run was a write
\* that ended in an exception only the writers of the parts raise
C2_AssemblyRaised ==
    pc = "idle" /\ op.name = "write_edi_file" /\ op.status \in {"AttributeError", "TypeError"}
      /\ DOMAIN fs = {InPath}

\* C3: read_edi_file without a path, or with a path that names no file, raises
\* in its first step, with every section object and the transfer function
\* as they were; the steps that build the sections run on a path of a file
C3_ReadChecksPath ==
    [][/\ (pc = "r_check"
            /\ LET fn == IF IsNone(rd) THEN edi.edi_fn ELSE rd
               IN IsNone(fn) \/ fn \notin DOMAIN fs)
          => /\ pc' = "idle" /\ op'.status = "MTpyError_EDI"
             /\ edi'.Header = edi.Header /\ edi'.Info = edi.Info
             /\ edi'.Define_measurement = edi.Define_measurement
             /\ edi'.Data_sect = edi.Data_sect
             /\ edi'.Z = edi.Z /\ edi'.Tipper = edi.Tipper
       /\ pc' \in ReadSteps \ {"r_check"} => ~IsNone(edi'.edi_fn) /\ edi'.edi_fn \in DOMAIN fs']_vars
\* read_edi_file on a path that names no file has raised
C3_NoFileRaised ==
    pc = "idle" /\ op.name = "read_edi_file" /\ op.status = "MTpyError_EDI"
      /\ edi.edi_fn = NoPath

\* C4: no read of a file whose data section is a spectra section returns
C4_SpectraRejected == ReadReturned => edi.Data_sect.data_type # W("spectra")

\* the labels of the blocks _read_mt decodes
DecodedLabels ==
    {"freq"} \cup {ZLabels[a][b] : a \in 1..4, b \in 1..3} \cup {TLabels[a][b] : a \in 1..2, b \in 1..3}
\* C5: after a read of an impedance file has returned, the frequencies, the
\* rows of the four arrays and the values of every decoded block of the file
\* are as many as NFREQ says
C5_FrequencyCount ==
    ReadReturned /\ edi.Data_sect.data_type = W("z") =>
        LET n == edi.Data_sect.nfreq.pint
            dd == DataDict(DataLines(fs[edi.edi_fn], edi.Data_sect.line_num))
        IN /\ Len(edi.Z.freq.arr) = n
           /\ Len(edi.Z.z.arr) = n /\ Len(edi.Z.zerr.arr) = n
           /\ Len(edi.Tipper.tipper.arr) = n /\ Len(edi.Tipper.tippererr.arr) = n
           /\ \A k \in DOMAIN dd \cap DecodedLabels : Len(dd[k]) = n

\* the tokens of the data lines of a file
DataTokens(file) == UNION {SeqRange(file[i].toks) : i \in {j \in DOMAIN file : file[j].k = "data"}}
\* C6: with the empty value the header of the file read configures, a token
\* equal to it decodes to 0.0, 0.0 is written as it, and what is written for
\* 0.0 decodes to 0.0
C6_SentinelIdempotence ==
    ReadReturned /\ EmptyFloat(edi.Header).ok =>
        LET empty == EmptyFloat(edi.Header).v
            written == NumStrings(edi.Header, <<Zero>>, "zxxr", 1)
        IN /\ \A t \in DataTokens(fs[edi.edi_fn]) :
                PyFloat(t).ok /\ PyFloat(t).v = empty => DecodeToken(t) = Zero
           /\ written.ok /\ PyFloat(written.v[1]).v = empty
           /\ DecodeToken(written.v[1]) = Zero

\* the marker lines and the number lines of the blocks of a file, and its
\* NFREQ line
IsNumeric(l) ==
    \/ l.k = "data"
    \/ l.k = "mark" /\ Lower(l.name) \in DecodedLabels \cup {"zrot", "trot"}
    \/ l.k = "kv" /\ l.key = "NFREQ"
NumericBlocks(file) == SelectSeq(file, IsNumeric)
\* C7: a file F2 written from a new document read from F1, F1 written from a
\* document read from a file, holds the numeric blocks and the NFREQ of F1
C7_RoundTrip ==
    \A f2 \in DOMAIN made :
        LET f1 == made[f2].from
        IN made[f2].new /\ f1 \in DOMAIN made /\ ~IsNone(made[f1].from)
             => NumericBlocks(fs[f2]) = NumericBlocks(fs[f1])

\* numpy.zeros((n, 1, 2)) of the tipper and of its error
ZeroTipper(n) == Arr([k \in 1..n |-> [i \in {0} |-> [j \in 0..1 |-> Cplx(Zero, Zero)]]])
ZeroTipperErr(n) == Arr([k \in 1..n |-> [i \in {0} |-> [j \in 0..1 |-> Zero]]])
\* C8: _read_mt on an impedance file without '>TXR.EXP', whose frequency and
\* impedance blocks hold NFREQ values each, returns, the tipper and its error
\* zero arrays of shape (nfreq, 1, 2), the impedance as the blocks give it
C8_MissingTipper ==
    [][(/\ pc = "r_data" /\ edi.Data_sect.data_type = W("z")
        /\ "pint" \in DOMAIN edi.Data_sect.nfreq
        /\ ~HasBlock(fs[edi.edi_fn], "TXR.EXP")
        /\ LET dd == DataDict(DataLines(fs[edi.edi_fn], edi.Data_sect.line_num))
           IN \A k \in {"freq"} \cup {ZLabels[a][b] : a \in 1..4, b \in 1..3} :
                 k \in DOMAIN dd /\ Len(dd[k]) = edi.Data_sect.nfreq.pint)
       => LET n == edi.Data_sect.nfreq.pint
              dd == DataDict(DataLines(fs[edi.edi_fn], edi.Data_sect.line_num))
          IN /\ pc' = "r_backfill"
             /\ edi'.Tipper.tipper = ZeroTipper(n)
             /\ edi'.Tipper.tippererr = ZeroTipperErr(n)
             /\ \A a \in 1..4 :
                  /\ GetColumn(edi'.Z.z, (a - 1) \div 2, (a - 1) % 2)
                       = [k \in 1..n |-> Cplx(dd[ZLabels[a][1]][k], dd[ZLabels[a][2]][k])]
                  /\ GetColumn(edi'.Z.zerr, (a - 1) \div 2, (a - 1) % 2) = dd[ZLabels[a][3]]]_vars
\* _read_mt has returned on a file that has '>TYR.EXP' and no '>TXR.EXP'
C8_NoTxrDecoded ==
    pc = "r_backfill" /\ ~HasBlock(fs[edi.edi_fn], "TXR.EXP") /\ HasBlock(fs[edi.edi_fn], "TYR.EXP")
      /\ edi.Tipper.tipper = ZeroTipper(NFreq)

\* the reference value that stands in for a position field of the header
RefOf(key) == CASE key = "lat" -> "reflat" [] key = "lon" -> "reflon" [] OTHER -> "refelev"
\* C9: the last step of read_edi_file gives each of lat, lon and elev of the
\* header the reference value when the header section left it None and leaves
\* it alone otherwise, each field by itself; no step between the making of the
\* header and the end of the decoding touches the header
C9_Backfill ==
    [][/\ pc = "r_backfill" =>
            \A key \in {"lat", "lon", "elev"} :
                edi'.Header[key] = IF IsNone(edi.Header[key])
                                   THEN edi.Define_measurement[RefOf(key)]
                                   ELSE edi.Header[key]
       /\ pc \in {"r_info", "r_define", "r_dsect", "r_data"} => edi'.Header = edi.Header]_vars
\* a read has returned on a file whose header has a latitude and no longitude
\* and no elevation: the latitude is the header's, the other two the reference's
C9_Backfilled ==
    /\ ReadReturned
    /\ KeyLines(fs[edi.edi_fn], {"LAT"}) # {} /\ KeyLines(fs[edi.edi_fn], {"LONG", "ELEV"}) = {}
    /\ edi.Header.lat # edi.Define_measurement.reflat
    /\ edi.Header.lon = edi.Define_measurement.reflon /\ ~IsNone(edi.Header.lon)
    /\ edi.Header.elev = edi.Define_measurement.refelev /\ ~IsNone(edi.Header.elev)

\* the file read has a latitude or longitude line with a malformed value
BadPosition(file) ==
    \E i \in KeyLines(file, {"LAT", "LONG", "LON"}) : IsBadDms(Unquote(file[i].vals[1]))
\* C10: the making of the header raises FormatError on a latitude or
\* longitude line with a malformed value; on a file without a latitude
\* (longitude) line it returns with lat (lon) None, and the last step of
\* read_edi_file sets the field to the reference value
C10_PositionFormat ==
    [][/\ pc = "r_header" /\ BadPosition(fs[edi.edi_fn])
            => pc' = "idle" /\ op'.status = "FormatError"
       /\ pc = "r_header" /\ ~BadPosition(fs[edi.edi_fn]) /\ KeyLines(fs[edi.edi_fn], {"LAT"}) = {}
            => pc' = "r_info" /\ IsNone(edi'.Header.lat)
       /\ pc = "r_header" /\ ~BadPosition(fs[edi.edi_fn])
             /\ KeyLines(fs[edi.edi_fn], {"LONG", "LON"}) = {}
            => pc' = "r_info" /\ IsNone(edi'.Header.lon)
       /\ pc = "r_backfill" /\ KeyLines(fs[edi.edi_fn], {"LAT"}) = {}
            => edi'.Header.lat = edi.Define_measurement.reflat
       /\ pc = "r_backfill" /\ KeyLines(fs[edi.edi_fn], {"LONG", "LON"}) = {}
            => edi'.Header.lon = edi.Define_measurement.reflon]_vars
\* the read of a file with the latitude "12:AB:10" has raised FormatError
C10_MalformedRaised ==
    pc = "idle" /\ op.name \in {"Edi", "read_edi_file"} /\ op.status = "FormatError"
      /\ BadPosition(fs[edi.edi_fn])

\* the tokens of the number lines that follow line i of a file, up to the
\* next line that is neither a line of numbers nor blank
RECURSIVE TokensFrom(_, _)
TokensFrom(file, i) ==
    IF i > Len(file) \/ file[i].k \notin {"data", "blank"} THEN <<>>
    ELSE Tokens(file[i]) \o TokensFrom(file, i + 1)
\* the tokens of the block of a file that the marker line name opens
RawBlock(file, name) ==
    TokensFrom(file, 1 + CHOOSE i \in DOMAIN file : file[i].k = "mark" /\ file[i].name = name)
\* the marker words of the frequency block and of the twelve impedance blocks
ImpedanceMarkers == {"FREQ"} \cup {Upper(ZLabels[a][b]) : a \in 1..4, b \in 1..3}
\* the file has each of these blocks once, of n numbers none of which is 1.0e32
CompleteBlocks(file, n) ==
    \A name \in ImpedanceMarkers :
        /\ Cardinality({i \in DOMAIN file : file[i].k = "mark" /\ file[i].name = name}) = 1
        /\ Len(RawBlock(file, name)) = n
        /\ \A k \in 1..n : /\ IsNumeral(RawBlock(file, name)[k])
                            /\ PyFloat(RawBlock(file, name)[k]).v # Sentinel1e32
\* the float of the k-th number of a block
ValueOf(file, name, k) == PyFloat(RawBlock(file, name)[k]).v

\* C11: _read_mt on an impedance file with NFREQ = n whose frequency block and
\* twelve impedance blocks hold n numbers each, none of them the sentinel,
\* leaves Z.z and Z.zerr of shape (n, 2, 2), Z.z[k, i, j] the complex number
\* of the k-th values of the real and the imaginary block of the entry (i, j),
\* zxx (0,0), zxy (0,1), zyx (1,0), zyy (1,1), Z.zerr[k, i, j] the k-th value
\* of its variance block, and Z.freq the frequency block in the order of the file
C11_ImpedanceDecoded ==
    [][(/\ pc = "r_data" /\ edi.Data_sect.data_type = W("z")
        /\ "pint" \in DOMAIN edi.Data_sect.nfreq
        /\ CompleteBlocks(fs[edi.edi_fn], edi.Data_sect.nfreq.pint))
       => LET n == edi.Data_sect.nfreq.pint
              file == fs[edi.edi_fn]
          IN /\ DOMAIN edi'.Z.z.arr = 1..n /\ DOMAIN edi'.Z.zerr.arr = 1..n
             /\ \A k \in 1..n :
                  /\ DOMAIN edi'.Z.z.arr[k] = 0..1 /\ DOMAIN edi'.Z.zerr.arr[k] = 0..1
                  /\ \A a \in 1..4 :
                       LET i == (a - 1) \div 2
                           j == (a - 1) % 2
                       IN /\ DOMAIN edi'.Z.z.arr[k][i] = 0..1
                          /\ DOMAIN edi'.Z.zerr.arr[k][i] = 0..1
                          /\ edi'.Z.z.arr[k][i][j]
                               = Cplx(ValueOf(file, Upper(ZLabels[a][1]), k),
                                      ValueOf(file, Upper(ZLabels[a][2]), k))
                          /\ edi'.Z.zerr.arr[k][i][j] = ValueOf(file, Upper(ZLabels[a][3]), k)
             /\ edi'.Z.freq = Arr([k \in 1..n |-> ValueOf(file, "FREQ", k)])]_vars
\* _read_mt has decoded a file of complete blocks whose zxy and zyx differ
C11_Decoded ==
    /\ pc = "r_backfill" /\ edi.Data_sect.data_type = W("z")
    /\ CompleteBlocks(fs[edi.edi_fn], NFreq)
    /\ edi.Z.z.arr[1][0][1] # edi.Z.z.arr[1][1][0]
    /\ edi.Z.z.arr[NFreq][0][0].re # edi.Z.z.arr[1][0][0].re

\* _write_data_block is at its return statement, or at the raise of line 413
AtBlockEnd == pc \in {"b_return", "b_raise"}
\* the labels of the twelve impedance blocks and of the six tipper blocks
ImpedanceLabels == {ZLabels[a][b] : a \in 1..4, b \in 1..3}
TipperDataLabels == {TLabels[a][b] : a \in 1..2, b \in 1..3}
\* the 19 labels of the blocks
KnownLabels == {"freq", "zrot", "trot"} \cup ImpedanceLabels \cup TipperDataLabels
\* the number strings of block_lines, in their order
WrittenTokens == TokensFrom(w.block_lines, 2)

\* C12: _write_data_block with a label that is none of the 19 raises the
\* error of an unwritable block (FormatError in the specification,
\* MTpyError_EDI in the code) and builds no line
C12_UnknownLabelFails ==
    AtBlockEnd /\ Lower(w.data_key) \notin KnownLabels
      => pc = "b_raise" /\ w.exc \in {"FormatError", "MTpyError_EDI"} /\ w.block_lines = <<>>

\* C13: the k-th number string of a block is that of the empty value of the
\* header when the k-th element is 0.0 and the block is an impedance or a
\* tipper block, and that of the element itself otherwise: a 0.0 of FREQ, ZROT
\* and TROT is written as 0.0
C13_ZeroReplacement ==
    pc = "b_return" /\ Lower(w.data_key) \in KnownLabels /\ EmptyFloat(edi.Header).ok
      => /\ Len(WrittenTokens) = Len(w.data_comp_arr)
         /\ \A k \in 1..Len(w.data_comp_arr) :
              WrittenTokens[k] =
                  FormatE(IF w.data_comp_arr[k] = Zero
                             /\ Lower(w.data_key) \in ImpedanceLabels \cup TipperDataLabels
                          THEN EmptyFloat(edi.Header).v
                          ELSE w.data_comp_arr[k])

\* C14: the list of a block of one element or more ends with a line of
\* numbers and a blank line after it
C14_TrailingBlank ==
    pc = "b_return" /\ Len(w.data_comp_arr) >= 1
      => /\ Len(w.block_lines) >= 3
         /\ w.block_lines[Len(w.block_lines)] = Blank
         /\ w.block_lines[Len(w.block_lines) - 1].k = "data"

\* C15: for each of the 19 labels _write_data_block returns, and the first
\* line of the block is '>', the label in upper case, ROT=ZROT for an
\* impedance block, ROT=TROT for a tipper block and nothing for FREQ, ZROT and
\* TROT, then '//' and the number of elements
C15_MarkerLine ==
    AtBlockEnd /\ Lower(w.data_key) \in KnownLabels
      => /\ pc = "b_return"
         /\ w.block_lines[1].k = "mark" /\ ~w.block_lines[1].eq
         /\ Lower(w.block_lines[1].name) = Lower(w.data_key)
         /\ w.block_lines[1].name \notin KnownLabels
         /\ w.block_lines[1].args =
               (IF Lower(w.data_key) \in ImpedanceLabels THEN <<Arg("ROT", W("ZROT"))>>
                ELSE IF Lower(w.data_key) \in TipperDataLabels THEN <<Arg("ROT", W("TROT"))>>
                ELSE <<>>)
               \o <<Bare(W("//")), Bare(IntLit(Len(w.data_comp_arr)))>>
\* the block of txr.exp of the longest array is at its return statement, and
\* so is a block of zrot
C15_TipperBlockBuilt ==
    /\ pc = "b_return" /\ Len(w.data_comp_arr) = MaxElems
    /\ \/ w.data_key = "txr.exp" /\ w.block_lines[1].name = "TXR.EXP"
       \/ w.data_key = "zrot" /\ w.block_lines[1].name = "ZROT"

\* the name write_edi_file starts from when it is given none
DefaultTarget(e) == IF ~IsNone(e.edi_fn) THEN e.edi_fn ELSE Path(Str(e.Header.dataid), <<>>)
\* fn is base, or base with a counter, the first that names no file of fsys
FirstFree(fn, base, fsys) ==
    /\ fn \notin DOMAIN fsys
    /\ \/ fn = base
       \/ \E i \in 1..(Cardinality(DOMAIN fsys) + 1) :
            /\ fn = Path(base.stem, base.sfx \o <<i>>)
            /\ base \in DOMAIN fsys
            /\ \A j \in 1..(i - 1) : Path(base.stem, base.sfx \o <<j>>) \in DOMAIN fsys
\* C16, as claimed: the name write_edi_file takes when it is given none is
\* that of the station, Header.dataid, made unique, and no file is touched
\* in the step (stated of the documents that have a station)
C16_NameOfStation ==
    [][pc = "w_name" /\ IsNone(w.new_edi_fn) /\ ~IsNone(edi.Header.dataid)
         => /\ FirstFree(w'.new_edi_fn, Path(Str(edi.Header.dataid), <<>>), fs)
            /\ fs' = fs]_vars
\* C16, amended: the name write_edi_file takes when it is given none is the
\* path the document was read from when it has one, and that of the station,
\* Header.dataid, otherwise; either is made unique by the first counter that
\* names no file, and no file is touched in the step; the step that writes
\* creates the file of that name and leaves every other file as it was
C16_DefaultName ==
    [][/\ pc = "w_name" /\ IsNone(w.new_edi_fn)
            => FirstFree(w'.new_edi_fn, DefaultTarget(edi), fs) /\ fs' = fs
       /\ pc = "w_open"
            => /\ w.new_edi_fn \notin DOMAIN fs
               /\ DOMAIN fs' = DOMAIN fs \cup {w.new_edi_fn}
               /\ \A p \in DOMAIN fs : fs'[p] = fs[p]]_vars
\* a document that was read from no file has taken the name of its station
\* with a counter, the station being that of a file that is there
C16_StationNameTaken ==
    /\ pc = "w_dataid" /\ IsNone(edi.edi_fn)
    /\ edi.Header.dataid = W("mt01") /\ w.new_edi_fn = Path(W("mt01"), <<1>>)

\* the string of a value given to the station property
StationString(v) == IF "pint" \in DOMAIN v THEN IntLit(v.pint) ELSE v
\* C17: an assignment to Edi.station leaves Header.dataid and Data_sect.sectid
\* the string of the value assigned, which Edi.station then returns, and
\* every other attribute of Header and of Data_sect, and every other part
\* of the document, as it was
C17_StationAssigned ==
    [][op'.name = "station" /\ calls' = calls + 1
         => /\ edi'.Header.dataid = StationString(op'.arg)
            /\ edi'.Data_sect.sectid = StationString(op'.arg)
            /\ GetStation(edi') = StationString(op'.arg)
            /\ IsText(GetStation(edi'))
            /\ DOMAIN edi'.Header = DOMAIN edi.Header
            /\ \A a \in DOMAIN edi.Header \ {"dataid"} : edi'.Header[a] = edi.Header[a]
            /\ DOMAIN edi'.Data_sect = DOMAIN edi.Data_sect
            /\ \A a \in DOMAIN edi.Data_sect \ {"sectid"} : edi'.Data_sect[a] = edi.Data_sect[a]
            /\ \A f \in DOMAIN edi \ {"Header", "Data_sect"} : edi'[f] = edi[f]]_vars
\* the station of a document read from a file was given a number, after it
\* had been given a name
C17_StationRenamed ==
    /\ op.name = "station" /\ op.arg = PInt(5) /\ calls >= 3
    /\ ~IsNone(edi.edi_fn) /\ edi.Header.acqby = W("par28ew")
    /\ edi.Header.dataid = IntLit(5) /\ edi.Data_sect.sectid = IntLit(5)

\* ------------------------------------------------------------------------
\* The section objects by themselves (SpecSect)
\* ------------------------------------------------------------------------
\* the reader name was called without a list on a section that has neither a
\* file nor the list attribute: it returned and left the section as constructed
ReaderLeftDefaults(name, sect, list, default) ==
    (op.name = name /\ IsNone(op.arg) /\ IsNone(edi[sect].edi_fn) /\ IsNone(edi[sect][list]))
        => (op.status = "returned" /\ edi[sect] = default)

\* C18: each of the four section readers (read_header, read_info,
\* read_define_measurement, read_data_sect), called on an object without a
\* source file and without an in-memory list, does not raise and leaves every
\* attribute at its default value.
C18_NoSourceNoOp ==
    /\ ReaderLeftDefaults("read_header", "Header", "header_list", Header0(None))
    /\ ReaderLeftDefaults("read_info", "Info", "info_list", Information0(None))
    /\ ReaderLeftDefaults("read_define_measurement", "Define_measurement", "measurement_list",
                          DefineMeasurement0(None))
    /\ ReaderLeftDefaults("read_data_sect", "Data_sect", "data_sect_list", DataSection0(None))

\* the channel records (dictionaries) of a measurement list
ChannelRecords(list) == SelectSeq(list, LAMBDA l : "dict" \in DOMAIN l)
Injective(f) == \A i, j \in DOMAIN f : i # j => f[i] # f[j]

\* C19: after read_define_measurement(measurement_list) returns, the channel
\* records of the list, when their declared ids are pairwise distinct or they
\* have no id, each have their own 'meas_<NN>' entry: a record with an id under
\* that id, and no two records under the same key.
C19_OneEntryPerRecord ==
    (op.name = "read_define_measurement" /\ op.status = "returned" /\ ~IsNone(op.arg)) =>
        LET recs == ChannelRecords(op.arg.list)
            meas == edi.Define_measurement.meas
            declared(i) == "id" \in DOMAIN recs[i].dict
        IN (\A i, j \in DOMAIN recs :
                (i # j /\ declared(i) /\ declared(j)) => recs[i].dict["id"] # recs[j].dict["id"])
           => \E f \in [DOMAIN recs -> DOMAIN meas] :
                 /\ Injective(f)
                 /\ \A i \in DOMAIN recs :
                       /\ meas[f[i]].at["chtype"] = recs[i].dict["chtype"]
                       /\ declared(i) => f[i] = recs[i].dict["id"].il

\* the '>HMEAS' and '>EMEAS' lines of a written section
ChannelLines(lines) ==
    SelectSeq(lines, LAMBDA l : l.k = "mark" /\ l.name \in {"HMEAS", "EMEAS"})
WriteDefineReturned == op.name = "write_define_measurement" /\ op.status = "returned"

\* C20: the list write_define_measurement returns holds exactly one '>HMEAS'
\* or '>EMEAS' line per stored channel entry, the lines in the string order of
\* the 'meas_<NN>' keys of their entries, whatever the order the entries were
\* read in.
C20_LexicographicOrder ==
    WriteDefineReturned =>
        LET out == ChannelLines(w.measurement_lines)
            meas == edi.Define_measurement.meas
        IN /\ Len(out) = Cardinality(DOMAIN meas)
           /\ \E order \in [DOMAIN out -> DOMAIN meas] :
                 /\ Injective(order)
                 /\ \A i \in DOMAIN out : out[i] = MeasLine(meas[order[i]]).v
                 /\ \A i, j \in DOMAIN out :
                       i < j => LexLess(MeasKeyDigits(order[i]), MeasKeyDigits(order[j]))

\* a section with three channels was written, the line of 'meas_100' before
\* the line of 'meas_11'
C20_StringOrderNotNumeric ==
    /\ WriteDefineReturned
    /\ LET out == ChannelLines(w.measurement_lines)
       IN /\ Len(out) >= 3
          /\ \E i, j \in DOMAIN out :
                i < j /\ out[i].args[1].val = IntLit(100) /\ out[j].args[1].val = IntLit(11)

\* ------------------------------------------------------------------------
\* The lines of the sections
\* ------------------------------------------------------------------------
\* the first line of the file that is the marker of the section word
MarkerAt(file, word) ==
    CHOOSE i \in 1..Len(file) :
        /\ StartsGT(file[i]) /\ Finds(file[i], word)
        /\ \A j \in 1..(i - 1) : ~(StartsGT(file[j]) /\ Finds(file[j], word))
HasMarker(file, word) == \E i \in 1..Len(file) : StartsGT(file[i]) /\ Finds(file[i], word)
\* the lines after the marker of the section word, up to the next line that
\* starts with '>' (top = FALSE) or with '>=' (top = TRUE)
SectionLines(file, word, top) ==
    IF ~HasMarker(file, word) THEN {}
    ELSE LET i == MarkerAt(file, word)
             ends(j) == IF top THEN StartsGE(file[j]) ELSE StartsGT(file[j])
         IN {file[k] : k \in {k \in (i + 1)..Len(file) : \A j \in (i + 1)..k : ~ends(j)}}
\* the list a section object holds, read from the file it names
ListRead(o, list) ==
    IF ~IsNone(o.edi_fn) /\ IsFile(fs, o.edi_fn) /\ ~IsNone(o[list]) THEN SeqRange(o[list].list)
    ELSE {}
SourceOf(o) == fs[o.edi_fn]

HeaderListInSection ==
    \A h \in ListRead(edi.Header, "header_list") :
        \E l \in SectionLines(SourceOf(edi.Header), "head", FALSE) :
            l.k = "kv" /\ h = KV(l.key, Unquote(l.vals[1]))
InfoListInSection ==
    \A h \in ListRead(edi.Info, "info_list") :
        \E l \in SectionLines(SourceOf(edi.Info), "info", FALSE) :
            h = l \/ (l.k = "txt" /\ h \in {InfoColumn(l, 1), InfoColumn(l, 2)})
MeasurementListInSection ==
    \A h \in ListRead(edi.Define_measurement, "measurement_list") :
        \E l \in SectionLines(SourceOf(edi.Define_measurement), "definemeas", TRUE) :
            h = l \/ (StartsGT(l) /\ h = [dict |-> MeasDict(l.args, 1, <<>>).v])
DataSectListInSection ==
    \A h \in ListRead(edi.Data_sect, "data_sect_list") :
        h \in SectionLines(SourceOf(edi.Data_sect), "sect", FALSE)

\* C21: every line a section object has accumulated from its file lies
\* between the marker line of its section and the next top-level marker line;
\* in particular the list of the data section holds no line of a '>FREQ',
\* '>Z...' or '>T...' block.
C21_SectionLinesOnly ==
    /\ HeaderListInSection
    /\ InfoListInSection
    /\ MeasurementListInSection
    /\ DataSectListInSection

\* the 'key=value' lines of a list given to a reader
KeyValueLines(list) == {l \in SeqRange(list) : "k" \in DOMAIN l /\ l.k = "kv"}
\* the text after the first '=' of a line, the double quotes removed: one
\* piece, or the pieces that the further '=' separate
RestOfLine(l) ==
    IF Len(l.vals) = 1 THEN Unquote(l.vals[1])
    ELSE [pieces |-> [i \in 1..Len(l.vals) |-> Unquote(l.vals[i])]]
\* the keys whose values the readers convert or rename
HeaderConverted(key) ==
    \/ SubstrOf(key, "latitude") \/ SubstrOf(key, "longitude") \/ SubstrOf(key, "elevation")
    \/ key \in {"country", "state", "loc", "location", "prospect", "fileby"}
DefineConverted(key) ==
    \/ SubstrOf(key, "reflatitude") \/ SubstrOf(key, "reflongitude")
    \/ SubstrOf(key, "refelevation") \/ SubstrOf(key, "maxchannels")
    \/ SubstrOf(key, "maxmeasurements")
\* the reader name, given the list of op.arg, has returned
ReaderReturned(name) == op.name = name /\ op.status = "returned" /\ ~IsNone(op.arg)
\* the section holds the whole value of line l under the lowercased key
StoredWhole(o, l) == Lower(l.key) \in DOMAIN o /\ o[Lower(l.key)] = RestOfLine(l)

\* C22: read_header, read_define_measurement and read_data_sect split a
\* 'key=value' line on the first '=' only: the attribute holds the whole rest
\* of the line, quotes removed, also when the value holds a further '='.
C22_SplitOnFirstEquals ==
    /\ ReaderReturned("read_header") =>
          \A l \in KeyValueLines(op.arg.list) :
              ~HeaderConverted(Lower(l.key)) => StoredWhole(edi.Header, l)
    /\ ReaderReturned("read_define_measurement") =>
          \A l \in KeyValueLines(op.arg.list) :
              ~DefineConverted(Lower(l.key)) => StoredWhole(edi.Define_measurement, l)
    /\ ReaderReturned("read_data_sect") =>
          \A l \in KeyValueLines(op.arg.list) :
              ~PyInt(l.vals[1]).ok => StoredWhole(edi.Data_sect, l)

\* the names and aliases the readers know
HeaderRecognized == {"lat", "latitude", "lon", "long", "longitude", "elev", "elevation",
                     "country", "state", "loc", "location", "prospect", "progvers", "fileby"}
DefineRecognized == {"reflat", "reflatitude", "reflon", "reflong", "reflongitude", "refelev",
                     "refelevation", "maxchan", "maxchannels", "maxmeas", "maxmeasurements"}
\* this step is the reader name given a list whose keys are all outside rec
GivenUnrecognized(name, rec) ==
    /\ op'.name = name /\ ~IsNone(op'.arg)
    /\ \A l \in KeyValueLines(op'.arg.list) : Lower(l.key) \notin rec
\* section o2, o before the step, holds every line with one '=' under its own
\* lowercased key and has kept the attributes of kept
StoredUnderOwnName(o, o2, list, kept, unq) ==
    /\ \A l \in KeyValueLines(list) :
          Len(l.vals) = 1 =>
              /\ Lower(l.key) \in DOMAIN o2
              /\ o2[Lower(l.key)] = IF unq THEN Unquote(l.vals[1]) ELSE l.vals[1]
    /\ \A a \in kept : o2[a] = o[a]

\* C23: a key that read_header or read_define_measurement does not know is
\* stored as an attribute under its own lowercased name, its value unchanged,
\* and lat, lon, elev, reflat, reflon, refelev, maxchan and maxmeas stay as
\* they were.
C23_UnrecognizedStored ==
    [][/\ GivenUnrecognized("read_header", HeaderRecognized) =>
             StoredUnderOwnName(edi.Header, edi'.Header, op'.arg.list,
                                {"lat", "lon", "elev"}, TRUE)
       /\ GivenUnrecognized("read_define_measurement", DefineRecognized) =>
             StoredUnderOwnName(edi.Define_measurement, edi'.Define_measurement, op'.arg.list,
                                {"reflat", "reflon", "refelev", "maxchan", "maxmeas"}, FALSE)]_vars

\* a channel record with a field that is no number where a number is due
NoNumberIn(r) == \E a \in DOMAIN r.dict \ {"chtype", "acqchan"} : ~MeasFloat(r.dict[a]).ok
\* those records of the list given have each their entry, the field that is
\* no number held as the string it was
RecordsKept ==
    \A r \in {r \in SeqRange(ChannelRecords(op.arg.list)) : NoNumberIn(r)} :
        \E n \in DOMAIN edi.Define_measurement.meas :
            \A a \in DOMAIN r.dict \ {"id"} :
                LET v == edi.Define_measurement.meas[n].at[a]
                IN IF MeasFloat(r.dict[a]).ok THEN v = MeasFloat(r.dict[a]).v ELSE v = r.dict[a]

\* C24: no coercion failure aborts a read: a token of a data block that is no
\* number is decoded as 0.0, and read_define_measurement, given records and
\* lines with a field, an id or a MAXCHAN/MAXMEAS value that is no number,
\* returns, every record of the list kept.
C24_CoercionNeverAborts ==
    /\ DecodeToken(TStars) = Zero
    /\ (op.name = "read_define_measurement" /\ ~IsNone(op.arg)) =>
          (op.status = "returned" /\ RecordsKept)

\* ------------------------------------------------------------------------
\* The blocks of _read_mt (SpecMt)
\* ------------------------------------------------------------------------
\* a marker line: starts with '>' and holds no '!'; a line without '>' and '!'
IsMarker(l) == StartsGT(l) /\ ~HasBang(l)
IsPlain(l) == ~StartsGT(l) /\ ~HasBang(l)
\* the labels of MtLines that begin with 'z' or 't' or are 'freq'
Opening == {"freq", "zxxr", "tipper"}
\* the block open after the first n lines: the label of the last marker line
\* among them when it opens a block, "" otherwise
OpenBlock(lines, n) ==
    LET ms == {j \in 1..n : IsMarker(lines[j])}
    IN IF ms = {} THEN ""
       ELSE LET j == CHOOSE j \in ms : \A k \in ms : k <= j
            IN IF Lower(lines[j].name) \in Opening THEN Lower(lines[j].name) ELSE ""
Decoded(l) == [ii \in 1..Len(Tokens(l)) |-> DecodeToken(Tokens(l)[ii])]

\* C25: in the loop of _read_mt a marker line whose label begins with 'z' or
\* 't' or is 'freq' opens that block with an empty list, also when the label
\* was met before; a line without '>' and '!' appends its tokens, in order, to
\* the block that is open and to no other; after a marker line with another
\* label no block is open, and the lines that follow are added to none.
C25_BlockAccumulation ==
    [][(pc = "m_loop" /\ pc' = "m_loop") =>
          LET l == w.data_lines[w.i]
              d == w.scan.data_dict
              open == OpenBlock(w.data_lines, w.i - 1)
          IN w'.scan.data_dict =
                IF IsMarker(l) /\ Lower(l.name) \in Opening THEN SetAttr(d, Lower(l.name), <<>>)
                ELSE IF IsPlain(l) /\ open # "" THEN [d EXCEPT ![open] = @ \o Decoded(l)]
                ELSE d]_vars

\* the loop has passed '>FREQ', '>RHOXY' and a line of numbers: the numbers
\* are in no block
C25_ClosedByOtherLabel ==
    /\ pc = "m_loop" /\ Len(w.data_lines) = 3 /\ w.i = 4
    /\ w.data_lines[1] = BlockMark("FREQ")
    /\ w.data_lines[2] = BlockMark("RHOXY")
    /\ w.data_lines[3] = Data(<<TNum(2), TStars>>)
    /\ w.scan.data_dict = ("freq" :> <<>>)

\* ------------------------------------------------------------------------
\* The files written (Spec)
\* ------------------------------------------------------------------------
\* C26: write_edi_file never overwrites a file: the name it has chosen, from
\* its argument, from the path the document was read from or from the station,
\* names no file of the file system; the file it opens did not exist, and every
\* file there was, the source of the document among them, is as it was.
C26_NeverOverwrites ==
    [][/\ \A p \in DOMAIN fs : p \in DOMAIN fs' /\ fs'[p] = fs[p]
       /\ pc = "w_name" => ~IsFile(fs, w'.new_edi_fn)
       /\ pc = "w_open" => (~IsFile(fs, w.new_edi_fn) /\ IsFile(fs', w.new_edi_fn))]_vars

\* a document read from mt01 has been written without a name: the file is
\* beside its source, which is still the file the run started with
C26_WrittenBesideSource ==
    /\ op.name = "write_edi_file" /\ op.status = "returned"
    /\ edi.edi_fn = InPath
    /\ IsFile(fs, Path(W("mt01"), <<1>>))
    /\ fs[InPath] \in InputFiles
    /\ fs[Path(W("mt01"), <<1>>)] # fs[InPath]

\* ------------------------------------------------------------------------
\* C27: read_edi_file is not all-or-nothing. No step of it before the
\* decoding touches Z or Tipper; when the file of the document has no '>FREQ'
\* block the decoding raises KeyError and leaves the document with the four
\* section objects built from that file, as they were built (the position is
\* not taken from the measurement section), and with the Z and Tipper it had.
\* ------------------------------------------------------------------------
NoFreqBlock(file) ==
    \A i \in 1..Len(file) : ~(file[i].k = "mark" /\ Lower(file[i].name) = "freq")
C27_ReadNotAllOrNothing ==
    [][/\ (pc \in ReadSteps \ {"r_data"}) => (edi'.Z = edi.Z /\ edi'.Tipper = edi.Tipper)
       /\ (pc = "r_data" /\ edi.Data_sect.data_type = W("z") /\ NoFreqBlock(fs[edi.edi_fn]))
            => /\ pc' = "idle" /\ op'.status = "KeyError"
               /\ edi'.Z = edi.Z /\ edi'.Tipper = edi.Tipper
               /\ edi'.Header = NewHeader(edi.edi_fn, fs).o
               /\ edi'.Info = NewInformation(edi.edi_fn, fs).o
               /\ edi'.Define_measurement = NewDefineMeasurement(edi.edi_fn, fs).o
               /\ edi'.Data_sect = NewDataSection(edi.edi_fn, fs).o]_vars
\* a document that held arrays has read the file without '>FREQ': the
\* sections are those of the second file, the header without a latitude
C27_NewSectionsOldArrays ==
    /\ pc = "idle" /\ op.name = "read_edi_file" /\ op.status = "KeyError"
    /\ edi.edi_fn = PairPath /\ edi.Header.edi_fn = PairPath
    /\ edi.Data_sect.edi_fn = PairPath
    /\ IsNone(edi.Header.lat) /\ ~IsNone(edi.Define_measurement.reflat)
    /\ IsArr(edi.Z.z) /\ IsArr(edi.Tipper.tipper)

\* ------------------------------------------------------------------------
\* The place of the data-section marker
\* ------------------------------------------------------------------------
\* the lines of the file that start with '>=' and name a data section
SectMarkers(file) == {i \in 1..Len(file) : StartsGE(file[i]) /\ Finds(file[i], "sect")}
\* the number of lines that start with '>=' among the first i
GeCount(file, i) == Cardinality({j \in 1..i : StartsGE(file[j])})
\* the 'key=value' lines that follow line i, up to the next line with '>'
AttributesAfter(file, i) ==
    {file[k] : k \in {k \in (i + 1)..Len(file) :
                        file[k].k = "kv" /\ \A j \in (i + 1)..k : ~StartsGT(file[j])}}
\* the section object holds what the line says: the integer, or the text
\* without its quotes
HoldsAttribute(o, l) ==
    o[Lower(l.key)] = IF IsIntLit(l.vals[1]) THEN PInt(l.vals[1].il) ELSE Unquote(l.vals[1])

MarkerCount(l) == l.args[Len(l.args)].bare.il
BlockMarkersOf(lines) == {l \in SeqRange(lines) : l.k = "mark"}
VarLabels == {"ZXX.VAR", "ZXY.VAR", "ZYX.VAR", "ZYY.VAR", "TXVAR.EXP", "TYVAR.EXP"}
\* the NFREQ lines of the data section assembled
NfreqLines(lines) == {l \in SeqRange(lines) : l.k = "kv" /\ l.key = "NFREQ"}
\* every marker of the lines counts the elements of the array it was written
\* from: arr for the values, var for the variances
CountsOf(lines, arr, var) ==
    \A l \in BlockMarkersOf(lines) :
        MarkerCount(l) = Len((IF l.name \in VarLabels THEN var ELSE arr).arr)
\* the arrays of the document all hold nfreq elements
SizesAgreeInMemory(e) ==
    /\ "pint" \in DOMAIN e.Data_sect.nfreq
    /\ With(<<e.Z.freq, e.Z.rotation_angle, e.Z.z, e.Z.zerr,
               e.Tipper.tipper, e.Tipper.tippererr,
               IF IsFlt(e.Tipper.rotation_angle) THEN e.Tipper.freq
               ELSE e.Tipper.rotation_angle>>, LAMBDA arrays :
         \A i \in 1..Len(arrays) : Len(arrays[i].arr) = e.Data_sect.nfreq.pint)

\* C29: when write_edi_file has assembled every part, the NFREQ line holds
\* the stored Data_sect.nfreq, every block marker counts the elements of the
\* array its block was written from, and the counts all equal the NFREQ
\* written exactly when the sizes of the arrays equal nfreq in the document.
C29_NfreqAndCounts ==
    pc = "w_open"
      => /\ NfreqLines(w.dsect_lines) = {KV("NFREQ", Str(edi.Data_sect.nfreq))}
         /\ CountsOf(w.freq_lines, edi.Z.freq, edi.Z.freq)
         /\ CountsOf(w.zrot_lines, edi.Z.rotation_angle, edi.Z.rotation_angle)
         /\ CountsOf(w.z_data_lines, edi.Z.z, edi.Z.zerr)
         /\ CountsOf(w.trot_lines,
                     IF IsFlt(edi.Tipper.rotation_angle) THEN edi.Tipper.freq
                     ELSE edi.Tipper.rotation_angle, edi.Tipper.freq)
         /\ CountsOf(w.t_data_lines, edi.Tipper.tipper, edi.Tipper.tippererr)
         /\ (\A l \in BlockMarkersOf(w.freq_lines \o w.zrot_lines \o w.z_data_lines
                                      \o w.trot_lines \o w.t_data_lines) :
                NfreqLines(w.dsect_lines) = {KV("NFREQ", IntLit(MarkerCount(l)))})
              <=> SizesAgreeInMemory(edi)
\* a document whose frequencies are one more than its nfreq is about to be
\* written: NFREQ and the count of '>FREQ' differ
C29_CountsDiffer ==
    /\ pc = "w_open"
    /\ NfreqLines(w.dsect_lines) = {KV("NFREQ", IntLit(NFreq))}
    /\ \E l \in BlockMarkersOf(w.freq_lines) : MarkerCount(l) = NFreq + 1
    /\ \E l \in BlockMarkersOf(w.z_data_lines) : MarkerCount(l) = NFreq

\* ------------------------------------------------------------------------
\* Writing a document without a station
\* ------------------------------------------------------------------------
\* the document read_edi_file makes of the file fn, whatever it held before
FromFile(fn) ==
    Backfill(ReadData([Edi0(fn) EXCEPT !.Header = NewHeader(fn, fs).o,
                                       !.Info = NewInformation(fn, fs).o,
                                       !.Define_measurement = NewDefineMeasurement(fn, fs).o,
                                       !.Data_sect = NewDataSection(fn, fs).o], fs).o)
\* read_edi_file is running for write_edi_file
ReadForWrite == ret = "w_header" /\ pc \in ReadSteps

====
